---- MODULE Spec2Model ----
(***************************************************************************)
(* langobject: a Proxy that turns method calls on a host object into       *)
(* prompts for a generation backend and reconciles the backend's text      *)
(* into the value of the call (src/src/langobject.js, lines 1-162).        *)
(*                                                                         *)
(* JavaScript strings are sequences of one-character strings, so that the  *)
(* text conversions of the code (slice, indexOf, regular expressions,      *)
(* JSON.parse, JSON.stringify, case mapping) are computed character by     *)
(* character.  JavaScript values are records [t, s, items] of one shape:   *)
(* t is the type tag, s the characters of a string / number / boolean /    *)
(* property key / function name, items the elements of an array or the     *)
(* "pair" members of an object in property order.                          *)
(***************************************************************************)
EXTENDS Integers, Sequences, FiniteSets, TLC

(* ------------------------------ bounds --------------------------------- *)
\* invocations made on the proxy in one run
MaxCalls == 2
\* chunk events the backend emits for one request
MaxChunks == 2

(* ---------------------------- characters ------------------------------- *)
UpperChars == <<"A","B","C","D","E","F","G","H","I","J","K","L","M","N","O","P","Q","R","S","T","U","V","W","X","Y","Z">>
LowerChars == <<"a","b","c","d","e","f","g","h","i","j","k","l","m","n","o","p","q","r","s","t","u","v","w","x","y","z">>
DigitChars == <<"0","1","2","3","4","5","6","7","8","9">>

Range(f) == {f[i] : i \in DOMAIN f}

\* const x = v; F(x): the value v is computed once
With(v, F(_)) == CHOOSE y \in {F(x) : x \in {v}} : TRUE

\* String.prototype.toLowerCase / toUpperCase on one character
toLowerChar(c) ==
    IF \E i \in 1..26 : UpperChars[i] = c
    THEN LowerChars[CHOOSE i \in 1..26 : UpperChars[i] = c] ELSE c
toUpperChar(c) ==
    IF \E i \in 1..26 : LowerChars[i] = c
    THEN UpperChars[CHOOSE i \in 1..26 : LowerChars[i] = c] ELSE c
toLowerCase(s) == [i \in 1..Len(s) |-> toLowerChar(s[i])]
toUpperCase(s) == [i \in 1..Len(s) |-> toUpperChar(s[i])]

\* the regular-expression class \s, restricted to the characters in use
IsSpace(c) == c \in {" ", "\n", "\t"}

RECURSIVE Flatten(_)
Flatten(ss) == IF ss = <<>> THEN <<>> ELSE Head(ss) \o Flatten(Tail(ss))

RECURSIVE Join(_, _)
\* Array.prototype.join
Join(ss, sep) ==
    IF ss = <<>> THEN <<>>
    ELSE IF Len(ss) = 1 THEN ss[1]
    ELSE ss[1] \o sep \o Join(Tail(ss), sep)

\* String.prototype.indexOf for a one-character needle: 0-based, -1 if absent
indexOf(s, c) ==
    IF \E i \in 1..Len(s) : s[i] = c
    THEN (CHOOSE i \in 1..Len(s) : s[i] = c /\ \A j \in 1..(i-1) : s[j] # c) - 1
    ELSE -1

\* String.prototype.slice(start, end): negative indices count from the end
slice(s, start, end) ==
    LET n    == Len(s)
        from == IF start < 0 THEN (IF n + start < 0 THEN 0 ELSE n + start)
                ELSE (IF start > n THEN n ELSE start)
        to   == IF end < 0 THEN (IF n + end < 0 THEN 0 ELSE n + end)
                ELSE (IF end > n THEN n ELSE end)
    IN  IF from >= to THEN <<>> ELSE SubSeq(s, from + 1, to)

\* String.prototype.includes
includes(s, sub) ==
    \E i \in 0..(Len(s) - Len(sub)) : SubSeq(s, i + 1, i + Len(sub)) = sub

\* String.prototype.startsWith
startsWith(s, pre) == Len(s) >= Len(pre) /\ SubSeq(s, 1, Len(pre)) = pre

\* String.prototype.substring(1)
substring1(s) == IF s = <<>> THEN <<>> ELSE Tail(s)

RECURSIVE trimStart(_)
trimStart(s) ==
    IF s # <<>> /\ IsSpace(Head(s)) THEN trimStart(Tail(s)) ELSE s
RECURSIVE trimEnd(_)
trimEnd(s) ==
    IF s # <<>> /\ IsSpace(s[Len(s)]) THEN trimEnd(SubSeq(s, 1, Len(s) - 1)) ELSE s
\* String.prototype.trim
trim(s) == trimEnd(trimStart(s))

\* propKey.replace(/([A-Z])/g, ' $1')
replaceCapitals(s) ==
    Flatten([i \in 1..Len(s) |->
        IF s[i] \in Range(UpperChars) THEN <<" ", s[i]>> ELSE <<s[i]>>])

\* name.replace(/_/g, ' ')
replaceUnderscores(s) == [i \in 1..Len(s) |-> IF s[i] = "_" THEN " " ELSE s[i]]

\* length of the longest prefix of s matching [^\s,]+
TokenLen(s) ==
    IF \E i \in 1..Len(s) : IsSpace(s[i]) \/ s[i] = ","
    THEN (CHOOSE i \in 1..Len(s) :
            /\ IsSpace(s[i]) \/ s[i] = ","
            /\ \A j \in 1..(i-1) : ~(IsSpace(s[j]) \/ s[j] = ",")) - 1
    ELSE Len(s)

RECURSIVE matchTokens(_)
\* str.match(/([^\s,]+)/g), with null rendered as the empty sequence
matchTokens(s) ==
    IF s = <<>> THEN <<>>
    ELSE IF IsSpace(Head(s)) \/ Head(s) = "," THEN matchTokens(Tail(s))
    ELSE <<SubSeq(s, 1, TokenLen(s))>> \o matchTokens(SubSeq(s, TokenLen(s) + 1, Len(s)))

(* ------------------------------ values --------------------------------- *)
Undef     == [t |-> "undefined", s |-> <<>>, items |-> <<>>]
Null      == [t |-> "null", s |-> <<>>, items |-> <<>>]
Str(cs)   == [t |-> "string", s |-> cs, items |-> <<>>]
Num(cs)   == [t |-> "number", s |-> cs, items |-> <<>>]
Bool(cs)  == [t |-> "boolean", s |-> cs, items |-> <<>>]
Arr(vs)   == [t |-> "array", s |-> <<>>, items |-> vs]
Pair(k, v) == [t |-> "pair", s |-> k, items |-> <<v>>]
Obj(ps)   == [t |-> "object", s |-> <<>>, items |-> ps]
\* a function value is known by its name
Fn(name)  == [t |-> "function", s |-> name, items |-> <<>>]

\* obj[key] on an object value; undefined when the key is absent
GetProp(o, k) ==
    IF o.t = "object" /\ \E i \in 1..Len(o.items) : o.items[i].s = k
    THEN o.items[CHOOSE i \in 1..Len(o.items) : o.items[i].s = k].items[1]
    ELSE Undef

\* JavaScript truthiness
Truthy(v) ==
    CASE v.t \in {"undefined", "null"} -> FALSE
      [] v.t = "string" -> v.s # <<>>
      [] v.t = "number" -> v.s \notin {<<"0">>, <<"-", "0">>}
      [] v.t = "boolean" -> v.s = <<"t", "r", "u", "e">>
      [] OTHER -> TRUE

(* ------------------------ JSON and conversions ------------------------- *)
NULLTEXT == <<"n","u","l","l">>
UNDEFINEDTEXT == <<"u","n","d","e","f","i","n","e","d">>
OBJECTTEXT == <<"[","o","b","j","e","c","t"," ","O","b","j","e","c","t","]">>
TRUETEXT == <<"t","r","u","e">>
FALSETEXT == <<"f","a","l","s","e">>
\* the quoted form JSON.stringify gives one character of a string
QuoteChar(c) ==
    CASE c = "\"" -> <<"\\", "\"">>
      [] c = "\\" -> <<"\\", "\\">>
      [] c = "\n" -> <<"\\", "n">>
      [] c = "\t" -> <<"\\", "t">>
      [] OTHER -> <<c>>
QuoteString(s) == <<"\"">> \o Flatten([i \in 1..Len(s) |-> QuoteChar(s[i])]) \o <<"\"">>

\* values JSON.stringify leaves out of an object and turns to null in an array
Unserializable(v) == v.t \in {"undefined", "function"}

RECURSIVE SelectSerializable(_)
SelectSerializable(ps) ==
    IF ps = <<>> THEN <<>>
    ELSE IF Unserializable(Head(ps).items[1]) THEN SelectSerializable(Tail(ps))
    ELSE <<Head(ps)>> \o SelectSerializable(Tail(ps))

RECURSIVE stringifyValue(_)
\* JSON.stringify of a serializable value
stringifyValue(v) ==
    CASE v.t = "string" -> QuoteString(v.s)
      [] v.t \in {"number", "boolean"} -> v.s
      [] v.t = "array" ->
            <<"[">> \o Join([i \in 1..Len(v.items) |->
                        IF Unserializable(v.items[i]) THEN NULLTEXT
                        ELSE stringifyValue(v.items[i])], <<",">>) \o <<"]">>
      [] v.t = "object" ->
            LET ps == SelectSerializable(v.items)
            IN  <<"{">> \o Join([i \in 1..Len(ps) |->
                        QuoteString(ps[i].s) \o <<":">> \o stringifyValue(ps[i].items[1])],
                        <<",">>) \o <<"}">>
      [] OTHER -> NULLTEXT

\* `${JSON.stringify(v)}`: JSON.stringify gives undefined for an undefined
\* value or a function, which the template literal renders as "undefined"
JSONstringify(v) == IF Unserializable(v) THEN UNDEFINEDTEXT ELSE stringifyValue(v)

RECURSIVE ToStringJS(_)
\* String(v), the conversion JSON.parse and property access apply to a
\* value that is not a string
ToStringJS(v) ==
    CASE v.t = "string" -> v.s
      [] v.t \in {"number", "boolean"} -> v.s
      [] v.t = "null" -> NULLTEXT
      [] v.t = "undefined" -> UNDEFINEDTEXT
      [] v.t = "array" ->
            Join([i \in 1..Len(v.items) |->
                    IF v.items[i].t \in {"undefined", "null"} THEN <<>>
                    ELSE ToStringJS(v.items[i])], <<",">>)
      [] v.t = "object" -> OBJECTTEXT
      [] OTHER -> v.s

\* result of a parsing step: ok, the value, the position after it
Parsed(v, p) == [ok |-> TRUE, v |-> v, p |-> p]
ParseError == [ok |-> FALSE, v |-> Undef, p |-> 0]

RECURSIVE SkipWs(_, _)
SkipWs(t, p) == IF p <= Len(t) /\ IsSpace(t[p]) THEN SkipWs(t, p + 1) ELSE p

RECURSIVE ParseStringBody(_, _, _)
\* the characters of a JSON string after its opening quote
ParseStringBody(t, p, acc) ==
    IF p > Len(t) THEN ParseError
    ELSE IF t[p] = "\"" THEN Parsed(Str(acc), p + 1)
    ELSE IF t[p] = "\\" THEN
        IF p + 1 > Len(t) THEN ParseError
        ELSE IF t[p + 1] \in {"\"", "\\", "/"} THEN ParseStringBody(t, p + 2, Append(acc, t[p + 1]))
        ELSE IF t[p + 1] = "n" THEN ParseStringBody(t, p + 2, Append(acc, "\n"))
        ELSE IF t[p + 1] = "t" THEN ParseStringBody(t, p + 2, Append(acc, "\t"))
        ELSE ParseError
    ELSE IF t[p] \in {"\n", "\t"} THEN ParseError
    ELSE ParseStringBody(t, p + 1, Append(acc, t[p]))

RECURSIVE DigitsEnd(_, _)
DigitsEnd(t, p) == IF p <= Len(t) /\ t[p] \in Range(DigitChars) THEN DigitsEnd(t, p + 1) ELSE p

\* a JSON integer: -? (0 | [1-9][0-9]*)
ParseNumber(t, p) ==
    LET q == IF t[p] = "-" THEN p + 1 ELSE p
        e == DigitsEnd(t, q)
    IN  IF e = q THEN ParseError
        ELSE IF t[q] = "0" /\ e > q + 1 THEN Parsed(Num(SubSeq(t, p, q)), q + 1)
        ELSE Parsed(Num(SubSeq(t, p, e - 1)), e)

ParseLiteral(t, p, word, v) ==
    IF p + Len(word) - 1 <= Len(t) /\ SubSeq(t, p, p + Len(word) - 1) = word
    THEN Parsed(v, p + Len(word)) ELSE ParseError

\* obj[k] = v: a repeated key keeps its first position and takes the new value
SetProp(ps, k, v) ==
    IF \E i \in 1..Len(ps) : ps[i].s = k
    THEN [i \in 1..Len(ps) |-> IF ps[i].s = k THEN Pair(k, v) ELSE ps[i]]
    ELSE Append(ps, Pair(k, v))

RECURSIVE ParseValue(_, _)
RECURSIVE ParseElements(_, _, _)
RECURSIVE ParseMembers(_, _, _)

\* the elements of an array from position p (after "[" or ","), acc the elements so far
ParseElements(t, p, acc) ==
    With(ParseValue(t, SkipWs(t, p)), LAMBDA r :
    With(IF r.ok THEN SkipWs(t, r.p) ELSE 0, LAMBDA q :
        IF ~r.ok \/ q > Len(t) THEN ParseError
        ELSE IF t[q] = "," THEN ParseElements(t, q + 1, Append(acc, r.v))
        ELSE IF t[q] = "]" THEN Parsed(Arr(Append(acc, r.v)), q + 1)
        ELSE ParseError))

\* the members of an object from position p (after "{" or ","), acc the members so far
ParseMembers(t, p, acc) ==
    With(SkipWs(t, p), LAMBDA k :
    With(IF k <= Len(t) /\ t[k] = "\"" THEN ParseStringBody(t, k + 1, <<>>) ELSE ParseError,
         LAMBDA kr :
    With(IF kr.ok THEN SkipWs(t, kr.p) ELSE 0, LAMBDA c :
    With(IF kr.ok /\ c <= Len(t) /\ t[c] = ":" THEN ParseValue(t, SkipWs(t, c + 1))
         ELSE ParseError, LAMBDA r :
    With(IF r.ok THEN SkipWs(t, r.p) ELSE 0, LAMBDA q :
        IF ~r.ok \/ q > Len(t) THEN ParseError
        ELSE IF t[q] = "," THEN ParseMembers(t, q + 1, SetProp(acc, kr.v.s, r.v))
        ELSE IF t[q] = "}" THEN Parsed(Obj(SetProp(acc, kr.v.s, r.v)), q + 1)
        ELSE ParseError)))))

\* one JSON value starting at position p (white space already skipped)
ParseValue(t, p) ==
    IF p > Len(t) THEN ParseError
    ELSE CASE t[p] = "\"" -> ParseStringBody(t, p + 1, <<>>)
           [] t[p] = "[" ->
                LET q == SkipWs(t, p + 1)
                IN  IF q <= Len(t) /\ t[q] = "]" THEN Parsed(Arr(<<>>), q + 1)
                    ELSE ParseElements(t, p + 1, <<>>)
           [] t[p] = "{" ->
                LET q == SkipWs(t, p + 1)
                IN  IF q <= Len(t) /\ t[q] = "}" THEN Parsed(Obj(<<>>), q + 1)
                    ELSE ParseMembers(t, p + 1, <<>>)
           [] t[p] = "-" \/ t[p] \in Range(DigitChars) -> ParseNumber(t, p)
           [] t[p] = "t" -> ParseLiteral(t, p, TRUETEXT, Bool(TRUETEXT))
           [] t[p] = "f" -> ParseLiteral(t, p, FALSETEXT, Bool(FALSETEXT))
           [] t[p] = "n" -> ParseLiteral(t, p, NULLTEXT, Null)
           [] OTHER -> ParseError

\* JSON.parse(x): x is converted to a string first; ok = FALSE is the
\* SyntaxError it throws
JSONparse(x) ==
    With(ToStringJS(x), LAMBDA t :
    With(ParseValue(t, SkipWs(t, 1)), LAMBDA r :
        IF r.ok /\ SkipWs(t, r.p) = Len(t) + 1 THEN [ok |-> TRUE, v |-> r.v]
        ELSE [ok |-> FALSE, v |-> Undef]))

(* ------------------------------- hosts --------------------------------- *)
\* A host function: its name, its source text as Function.prototype.toString
\* gives it (src), the parameters it declares, and what its body does:
\*   "return"   returns out            "identity" returns its first argument
\*   "template" returns the template literal whose parts are out.items
\*   "throw"    throws                 "templateContent" see templateContent
\*   "field"    returns the property of its first argument that out names
MkFunction(name, params, src, body, out) ==
    [name |-> name, params |-> params, src |-> src, body |-> body, out |-> out]

\* a part of a template literal that interpolates the i-th argument
ArgRef(i) == [t |-> "argref", s |-> <<DigitChars[i + 1]>>, items |-> <<>>]

\* position (1-based) of the first occurrence of sub in s at or after from, 0 if none
FindFrom(s, sub, from) ==
    IF \E i \in from..(Len(s) - Len(sub) + 1) : SubSeq(s, i, i + Len(sub) - 1) = sub
    THEN CHOOSE i \in from..(Len(s) - Len(sub) + 1) :
            /\ SubSeq(s, i, i + Len(sub) - 1) = sub
            /\ \A j \in from..(i - 1) : SubSeq(s, j, j + Len(sub) - 1) # sub
    ELSE 0

RECURSIVE RemoveAll(_, _)
\* s.replace(/sub/g, '')
RemoveAll(s, sub) ==
    LET i == FindFrom(s, sub, 1)
    IN  IF i = 0 THEN s
        ELSE SubSeq(s, 1, i - 1) \o RemoveAll(SubSeq(s, i + Len(sub), Len(s)), sub)

TemplateOpen == <<"<","t","e","m","p","l","a","t","e",">">>
TemplateClose == <<"<","/","t","e","m","p","l","a","t","e",">">>

\* README "Form Generator", createForm_sanitizeOutput: the first
\* <template>..</template> of the text without its tags, '' when there is none
templateContent(text) ==
    LET a == FindFrom(text, TemplateOpen, 1)
        b == IF a = 0 THEN 0 ELSE FindFrom(text, TemplateClose, a + Len(TemplateOpen))
    IN  IF b = 0 THEN <<>>
        ELSE RemoveAll(RemoveAll(SubSeq(text, a, b + Len(TemplateClose) - 1),
                                 TemplateOpen), TemplateClose)

\* argument i (1-based) of a call, undefined when not passed
ArgAt(args, i) == IF i <= Len(args) THEN args[i] ELSE Undef

\* func.apply(thisArg, args): threw = TRUE when the body throws
Apply(func, args) ==
    CASE func.body = "return" -> [threw |-> FALSE, v |-> func.out]
      [] func.body = "identity" -> [threw |-> FALSE, v |-> ArgAt(args, 1)]
      [] func.body = "template" ->
            [threw |-> FALSE,
             v |-> Str(Flatten([i \in 1..Len(func.out.items) |->
                    IF func.out.items[i].t = "argref"
                    THEN ToStringJS(ArgAt(args,
                            (CHOOSE d \in 1..10 : DigitChars[d] = func.out.items[i].s[1])))
                    ELSE func.out.items[i].s]))]
      [] func.body = "templateContent" ->
            IF ArgAt(args, 1).t = "string"
            THEN [threw |-> FALSE, v |-> Str(templateContent(ArgAt(args, 1).s))]
            ELSE [threw |-> TRUE, v |-> Undef]
      [] func.body = "field" ->
            IF ArgAt(args, 1).t \in {"undefined", "null"}
            THEN [threw |-> TRUE, v |-> Undef]
            ELSE [threw |-> FALSE, v |-> GetProp(ArgAt(args, 1), func.out.s)]
      [] OTHER -> [threw |-> TRUE, v |-> Undef]

\* a conversational turn of host.messages
Message(role, content) == Obj(<<Pair(<<"r","o","l","e">>, Str(role)), Pair(<<"c","o","n","t","e","n","t">>, content)>>)

JSONMarker == <<"r","e","s","u","l","t"," ","m","u","s","t"," ","b","e"," ","i","n"," ","J","S","O","N"," ","f","o","r","m","a","t",":">>

\* an empty-bodied method, as the README writes them
EmptyMethod(name, params, src) == MkFunction(name, params, src, "return", Undef)

\* README "Consider the following example" and "Orchestration and Memory":
\* class Writer, with one more method whose directive parameter comes first
Writer ==
    [ctor |-> <<"W","r","i","t","e","r">>,
     methods |-> <<
        EmptyMethod(<<"g","e","n","e","r","a","t","e","J","o","k","e">>, <<<<"t","o","p","i","c">>, <<"l","a","n","g","u","a","g","e">>>>,
                    <<"g","e","n","e","r","a","t","e","J","o","k","e","(","t","o","p","i","c",","," ","l","a","n","g","u","a","g","e",")","{","}">>),
        EmptyMethod(<<"t","r","a","n","s","l","a","t","e","T","e","x","t">>, <<<<"b","e","_","p","o","l","i","t","e">>, <<"t","e","x","t">>>>,
                    <<"t","r","a","n","s","l","a","t","e","T","e","x","t","(","b","e","_","p","o","l","i","t","e",","," ","t","e","x","t",")","{","}">>) >>,
     messages |-> Undef,
     tools |-> Undef]

\* README "Specifying Prompt": class Publisher
Publisher ==
    [ctor |-> <<"P","u","b","l","i","s","h","e","r">>,
     methods |-> <<
        EmptyMethod(<<"g","e","n","e","r","a","t","e","J","o","k","e">>, <<<<"t","o","p","i","c">>, <<"l","a","n","g","u","a","g","e">>>>,
                    <<"g","e","n","e","r","a","t","e","J","o","k","e","(","t","o","p","i","c",","," ","l","a","n","g","u","a","g","e",")","{","}"," ">>),
        MkFunction(<<"g","e","n","e","r","a","t","e","A","n","o","t","h","e","r","J","o","k","e">>, <<<<"t","o","p","i","c">>, <<"l","a","n","g","u","a","g","e">>>>,
                   <<"g","e","n","e","r","a","t","e","A","n","o","t","h","e","r","J","o","k","e","(","t","o","p","i","c",","," ","l","a","n","g","u","a","g","e",")","{"," ","r","e","t","u","r","n"," ","\"","p","l","e","a","s","e"," ","g","e","n","e","r","a","t","e"," ","a"," ","j","o","k","e"," ","f","o","r"," ","\""," ","+"," ","t","o","p","i","c"," ","+"," ","\""," ","i","n"," ","\""," ","+"," ","l","a","n","g","u","a","g","e"," ","+"," ","\""," ","l","a","n","g","u","a","g","e",".","\""," ","}">>,
                   "template",
                   Arr(<<Str(<<"p","l","e","a","s","e"," ","g","e","n","e","r","a","t","e"," ","a"," ","j","o","k","e"," ","f","o","r"," ">>), ArgRef(0), Str(<<" ","i","n"," ">>),
                         ArgRef(1), Str(<<" ","l","a","n","g","u","a","g","e",".">>)>>)),
        MkFunction(<<"g","e","n","e","r","a","t","e","J","s","o","n","J","o","k","e">>, <<<<"t","o","p","i","c">>, <<"l","a","n","g","u","a","g","e">>>>,
                   <<"g","e","n","e","r","a","t","e","J","s","o","n","J","o","k","e","(","t","o","p","i","c",","," ","l","a","n","g","u","a","g","e",")","{"," ","r","e","t","u","r","n"," ","\"","j","o","k","e"," ","f","o","r"," ","\""," ","+"," ","t","o","p","i","c"," ","+"," ","\"","."," ","r","e","s","u","l","t"," ","m","u","s","t"," ","b","e"," ","i","n"," ","J","S","O","N"," ","f","o","r","m","a","t",":"," ","{","t","i","t","l","e",","," ","c","o","n","t","e","n","t","}","\""," ","}">>,
                   "template",
                   Arr(<<Str(<<"j","o","k","e"," ","f","o","r"," ">>), ArgRef(0), Str(<<"."," ">>), Str(JSONMarker),
                         Str(<<" ","{","t","i","t","l","e",","," ","c","o","n","t","e","n","t","}">>)>>)),
        MkFunction(<<"s","u","m","m","a","r","i","z","e">>, <<<<"t","e","x","t">>, <<"b","e","_","b","r","i","e","f">>>>,
                   <<"s","u","m","m","a","r","i","z","e","(","t","e","x","t",","," ","b","e","_","b","r","i","e","f",")","{"," ","r","e","t","u","r","n"," ","\"","S","u","m","m","a","r","i","z","e"," ","i","t","\""," ","}">>,
                   "return", Str(<<"S","u","m","m","a","r","i","z","e"," ","i","t">>)) >>,
     messages |-> Undef,
     tools |-> Undef]

\* README "Form Generator": class Vue2Expert
Vue2Expert ==
    [ctor |-> <<"V","u","e","2","E","x","p","e","r","t">>,
     methods |-> <<
        EmptyMethod(<<"c","r","e","a","t","e","F","o","r","m">>, <<<<"f","i","e","l","d","s">>, <<"r","e","t","u","r","n","_","o","n","l","y","_","c","o","d","e","_","_","w","i","t","h","o","u","t","_","a","n","y","_","e","x","p","l","a","n","a","t","i","o","n">>>>,
                    <<"c","r","e","a","t","e","F","o","r","m","(","f","i","e","l","d","s",","," ","r","e","t","u","r","n","_","o","n","l","y","_","c","o","d","e","_","_","w","i","t","h","o","u","t","_","a","n","y","_","e","x","p","l","a","n","a","t","i","o","n",")","{","\n"," "," "," "," "," "," "," "," ","}">>),
        MkFunction(<<"c","r","e","a","t","e","F","o","r","m","_","s","a","n","i","t","i","z","e","O","u","t","p","u","t">>, <<<<"t","e","x","t">>>>,
                   <<"c","r","e","a","t","e","F","o","r","m","_","s","a","n","i","t","i","z","e","O","u","t","p","u","t","(","t","e","x","t",")","{"," ","r","e","t","u","r","n"," ","t","e","m","p","l","a","t","e","C","o","n","t","e","n","t","(","t","e","x","t",")"," ","}">>,
                   "templateContent", Undef) >>,
     messages |-> Undef,
     tools |-> Undef]

\* README "Streaming": class Writer with a stream sink
StreamWriter ==
    [ctor |-> <<"W","r","i","t","e","r">>,
     methods |-> <<
        EmptyMethod(<<"w","r","i","t","e","L","o","n","g","S","t","o","r","y">>, <<<<"t","o","p","i","c">>, <<"l","a","n","g","u","a","g","e">>, <<"p","l","e","a","s","e","_","w","r","i","t","e","_","i","n","_","h","t","m","l">>>>,
                    <<"w","r","i","t","e","L","o","n","g","S","t","o","r","y","(","t","o","p","i","c",","," ","l","a","n","g","u","a","g","e",","," ","p","l","e","a","s","e","_","w","r","i","t","e","_","i","n","_","h","t","m","l",")","{","}"," ">>),
        MkFunction(<<"s","t","r","e","a","m">>, <<<<"c","h","u","n","k">>>>, <<"s","t","r","e","a","m","(","c","h","u","n","k",")","{"," ","d","o","c","u","m","e","n","t",".","w","r","i","t","e","(","c","h","u","n","k",")"," ","}">>,
                   "return", Undef) >>,
     messages |-> Undef,
     tools |-> Undef]

\* README "Tool Invocation": class OrderTaker (menu text shortened)
OrderTaker ==
    [ctor |-> <<"O","r","d","e","r","T","a","k","e","r">>,
     methods |-> <<
        EmptyMethod(<<"r","e","s","p","o","n","d","T","o","U","s","e","r">>, <<<<"u","s","e","r","R","e","q","u","e","s","t">>>>, <<"r","e","s","p","o","n","d","T","o","U","s","e","r","(","u","s","e","r","R","e","q","u","e","s","t",")","{","}">>),
        MkFunction(<<"t","e","l","l","A","b","o","u","t","M","e","n","u">>, <<<<"c","o","n","t","e","n","t">>>>,
                   <<"t","e","l","l","A","b","o","u","t","M","e","n","u","(","c","o","n","t","e","n","t",")","{"," ","d","o","c","u","m","e","n","t",".","w","r","i","t","e","(","c","o","n","t","e","n","t",")"," ","}">>, "return", Undef),
        MkFunction(<<"f","i","n","a","l","O","r","d","e","r">>, <<<<"o","r","d","e","r">>>>,
                   <<"f","i","n","a","l","O","r","d","e","r","(","o","r","d","e","r",")","{"," ","d","o","c","u","m","e","n","t",".","w","r","i","t","e","(","o","r","d","e","r",")"," ","}">>, "return", Undef),
        MkFunction(<<"c","a","l","c","u","l","a","t","o","r">>, <<<<"j","a","v","a","S","c","r","i","p","t","M","a","t","h","E","x","p","r","e","s","s","i","o","n">>>>,
                   <<"c","a","l","c","u","l","a","t","o","r","(","j","a","v","a","S","c","r","i","p","t","M","a","t","h","E","x","p","r","e","s","s","i","o","n",")","{"," ","d","o","c","u","m","e","n","t",".","w","r","i","t","e","(","e","v","a","l","(","j","a","v","a","S","c","r","i","p","t","M","a","t","h","E","x","p","r","e","s","s","i","o","n",")",")"," ","}">>,
                   "return", Undef) >>,
     messages |-> Arr(<<Message(<<"s","y","s","t","e","m">>, Str(<<"Y","o","u"," ","a","r","e"," ","a"," ","c","l","e","r","k",".">>))>>),
     tools |-> Arr(<<Fn(<<"t","e","l","l","A","b","o","u","t","M","e","n","u">>), Fn(<<"f","i","n","a","l","O","r","d","e","r">>), Fn(<<"c","a","l","c","u","l","a","t","o","r">>)>>)]

\* spec 8.6: a host with tools = [calculate]; its second method authors a
\* prompt that asks for a JSON result
Scheduler ==
    [ctor |-> <<"S","c","h","e","d","u","l","e","r">>,
     methods |-> <<
        EmptyMethod(<<"c","r","e","a","t","e","S","c","h","e","d","u","l","e">>, <<<<"t","o","p","i","c">>>>, <<"c","r","e","a","t","e","S","c","h","e","d","u","l","e","(","t","o","p","i","c",")","{","}">>),
        MkFunction(<<"c","r","e","a","t","e","J","s","o","n","S","c","h","e","d","u","l","e">>, <<<<"t","o","p","i","c">>>>,
                   <<"c","r","e","a","t","e","J","s","o","n","S","c","h","e","d","u","l","e","(","t","o","p","i","c",")","{"," ","r","e","t","u","r","n"," ","\"","p","l","a","n"," ","i","t","."," ","r","e","s","u","l","t"," ","m","u","s","t"," ","b","e"," ","i","n"," ","J","S","O","N"," ","f","o","r","m","a","t",":"," ","[",".",".",".","]","\""," ","}">>,
                   "return", Str(<<"p","l","a","n"," ","i","t","."," ">> \o JSONMarker \o <<" ","[",".",".",".","]">>)),
        MkFunction(<<"c","a","l","c","u","l","a","t","e">>, <<<<"e","x","p","r">>>>,
                   <<"c","a","l","c","u","l","a","t","e","(","e","x","p","r",")","{"," ","r","e","t","u","r","n"," ","e","v","a","l","(","e","x","p","r",")"," ","}">>, "return", Undef) >>,
     messages |-> Arr(<<>>),
     tools |-> Arr(<<Fn(<<"c","a","l","c","u","l","a","t","e">>)>>)]

\* README "Multi-Agent": a Scheduler whose createSchedule returns an object
\* without a prompt field; the other methods return each of the remaining
\* values that line 22-30 of handler.get tell apart
Planner ==
    [ctor |-> <<"S","c","h","e","d","u","l","e","r">>,
     methods |-> <<
        MkFunction(<<"c","r","e","a","t","e","S","c","h","e","d","u","l","e">>, <<<<"t","o","p","i","c">>>>,
                   <<"c","r","e","a","t","e","S","c","h","e","d","u","l","e","(","t","o","p","i","c",")","{"," ","r","e","t","u","r","n"," ","{"," ","\"","c","o","-","w","o","r","k","e","r","s","\"",":"," ","[","\"","P","l","a","n","n","e","r","\"",","," ","\"","C","a","l","c","u","l","a","t","o","r","\"","]"," ","}"," ","}">>,
                   "return",
                   Obj(<<Pair(<<"c","o","-","w","o","r","k","e","r","s">>, Arr(<<Str(<<"P","l","a","n","n","e","r">>), Str(<<"C","a","l","c","u","l","a","t","o","r">>)>>))>>)),
        MkFunction(<<"p","l","a","n">>, <<<<"t","o","p","i","c">>>>,
                   <<"p","l","a","n","(","t","o","p","i","c",")","{"," ","r","e","t","u","r","n"," ","{"," ","p","r","o","m","p","t",":"," ","\"","m","a","k","e"," ","a"," ","p","l","a","n","\""," ","}"," ","}">>,
                   "return", Obj(<<Pair(<<"p","r","o","m","p","t">>, Str(<<"m","a","k","e"," ","a"," ","p","l","a","n">>))>>)),
        MkFunction(<<"d","r","a","f","t">>, <<<<"t","o","p","i","c">>>>,
                   <<"d","r","a","f","t","(","t","o","p","i","c",")","{"," ","r","e","t","u","r","n"," ","{"," ","p","r","o","m","p","t",":"," ","\"","\""," ","}"," ","}">>,
                   "return", Obj(<<Pair(<<"p","r","o","m","p","t">>, Str(<<>>))>>)),
        MkFunction(<<"o","u","t","l","i","n","e">>, <<<<"t","o","p","i","c">>>>,
                   <<"o","u","t","l","i","n","e","(","t","o","p","i","c",")","{"," ","r","e","t","u","r","n"," ","\"","\""," ","}">>, "return", Str(<<>>)),
        MkFunction(<<"p","o","s","t","p","o","n","e">>, <<<<"t","o","p","i","c">>>>,
                   <<"p","o","s","t","p","o","n","e","(","t","o","p","i","c",")","{"," ","r","e","t","u","r","n"," ","n","u","l","l"," ","}">>, "return", Null) >>,
     messages |-> Undef,
     tools |-> Undef]

\* a host with memory whose method asks for JSON and has a sanitize hook
\* that keeps one field of the result
Reviewer ==
    [ctor |-> <<"R","e","v","i","e","w","e","r">>,
     methods |-> <<
        MkFunction(<<"r","e","v","i","e","w">>, <<<<"t","e","x","t">>>>,
                   <<"r","e","v","i","e","w","(","t","e","x","t",")","{"," ","r","e","t","u","r","n"," ","\"","r","e","v","i","e","w"," ","i","t","."," ","r","e","s","u","l","t"," ","m","u","s","t"," ","b","e"," ","i","n"," ","J","S","O","N"," ","f","o","r","m","a","t",":"," ","{","t","i","t","l","e",","," ","c","o","n","t","e","n","t","}","\""," ","}">>,
                   "return", Str(<<"r","e","v","i","e","w"," ","i","t","."," ">> \o JSONMarker \o <<" ","{","t","i","t","l","e",","," ","c","o","n","t","e","n","t","}">>)),
        MkFunction(<<"r","e","v","i","e","w","_","s","a","n","i","t","i","z","e","O","u","t","p","u","t">>, <<<<"r","e","s","u","l","t">>>>,
                   <<"r","e","v","i","e","w","_","s","a","n","i","t","i","z","e","O","u","t","p","u","t","(","r","e","s","u","l","t",")","{"," ","r","e","t","u","r","n"," ","r","e","s","u","l","t",".","t","i","t","l","e"," ","}">>,
                   "field", Str(<<"t","i","t","l","e">>)) >>,
     messages |-> Arr(<<>>),
     tools |-> Undef]

\* a host with memory and two tools, one of which throws, and a method
\* (audit) that is not among its tools
Helpdesk ==
    [ctor |-> <<"H","e","l","p","d","e","s","k">>,
     methods |-> <<
        EmptyMethod(<<"r","e","s","p","o","n","d">>, <<<<"r","e","q","u","e","s","t">>>>, <<"r","e","s","p","o","n","d","(","r","e","q","u","e","s","t",")","{","}">>),
        MkFunction(<<"n","o","t","e">>, <<<<"t","e","x","t">>>>, <<"n","o","t","e","(","t","e","x","t",")","{"," ","d","o","c","u","m","e","n","t",".","w","r","i","t","e","(","t","e","x","t",")"," ","}">>,
                   "return", Undef),
        MkFunction(<<"c","r","a","s","h">>, <<<<"r","e","a","s","o","n">>>>, <<"c","r","a","s","h","(","r","e","a","s","o","n",")","{"," ","t","h","r","o","w"," ","n","e","w"," ","E","r","r","o","r","(","r","e","a","s","o","n",")"," ","}">>,
                   "throw", Undef),
        MkFunction(<<"a","u","d","i","t">>, <<<<"e","n","t","r","y">>>>, <<"a","u","d","i","t","(","e","n","t","r","y",")","{"," ","d","o","c","u","m","e","n","t",".","w","r","i","t","e","(","e","n","t","r","y",")"," ","}">>,
                   "return", Undef) >>,
     messages |-> Arr(<<>>),
     tools |-> Arr(<<Fn(<<"n","o","t","e">>), Fn(<<"c","r","a","s","h">>)>>)]

\* the Scheduler with this.tools = []
IdleScheduler == [Scheduler EXCEPT !.tools = Arr(<<>>)]

(* --------------------------- applications ------------------------------ *)
\* An application: the host it wraps, the calls it makes on the proxy, each
\* with the text the backend answers (exchanges), the properties it reads
\* from the proxy (reads), and how its backend behaves: fails = requests may
\* fail, unasked = it sends chunk events for requests not marked streaming.
Exchange(key, args, text) == [key |-> key, args |-> args, text |-> text]
Backend(fails, unasked) == [fails |-> fails, unasked |-> unasked]

CuteDog == <<Str(<<"a"," ","c","u","t","e"," ","d","o","g">>), Str(<<"K","o","r","e","a","n">>)>>
FormFields == <<Arr(<<Obj(<<Pair(<<"f","i","e","l","d","N","a","m","e">>, Str(<<"N","a","m","e">>))>>)>>), Bool(TRUETEXT)>>
JokeJSON == <<"{","\"","t","i","t","l","e","\"",":","\"","x","\"",",","\"","c","o","n","t","e","n","t","\"",":","\"","y","\"","}">>
JokeNotJSON == <<"{","t","i","t","l","e",":"," ","x","}">>
CalculateCall == <<"[","{","\"","t","o","o","l","\"",":","\"","c","a","l","c","u","l","a","t","e","\"",",","\"","a","r","g","s","\"",":","{","\"","e","x","p","r","\"",":","\"","2","+","2","\"","}","}","]">>
OrderCalls == <<"[","{","\"","t","o","o","l","\"",":","\"","c","a","l","c","u","l","a","t","o","r","\"",",","\"","a","r","g","s","\"",":","{","\"","j","a","v","a","S","c","r","i","p","t","M","a","t","h","E","x","p","r","e","s","s","i","o","n","\"",":","\"","2","2","*","2","\"","}","}",",","{","\"","t","o","o","l","\"",":","\"","f","i","n","a","l","O","r","d","e","r","\"",",","\"","a","r","g","s","\"",":","{","\"","o","r","d","e","r","\"",":","\"","2"," ","p","i","z","z","a","s","\"",",","\"","e","x","t","r","a","\"",":","\"","c","h","e","e","s","e","\"","}","}","]">>

\* batches with an element that names no callable of the Helpdesk: first,
\* in the middle, last (and then without args)
UnknownFirst == <<"[","{","\"","t","o","o","l","\"",":","\"","n","o","p","e","\"",",","\"","a","r","g","s","\"",":","{","}","}",",","{","\"","t","o","o","l","\"",":","\"","n","o","t","e","\"",",","\"","a","r","g","s","\"",":","{","\"","t","e","x","t","\"",":","\"","a","\"","}","}","]">>
UnknownMiddle == <<"[","{","\"","t","o","o","l","\"",":","\"","n","o","t","e","\"",",","\"","a","r","g","s","\"",":","{","\"","t","e","x","t","\"",":","\"","a","\"","}","}",",","{","\"","t","o","o","l","\"",":","\"","n","o","p","e","\"",",","\"","a","r","g","s","\"",":","{","\"","x","\"",":","\"","y","\"","}","}",",","{","\"","t","o","o","l","\"",":","\"","n","o","t","e","\"",",","\"","a","r","g","s","\"",":","{","\"","t","e","x","t","\"",":","\"","b","\"","}","}","]">>
UnknownLast == <<"[","{","\"","t","o","o","l","\"",":","\"","n","o","t","e","\"",",","\"","a","r","g","s","\"",":","{","\"","t","e","x","t","\"",":","\"","a","\"","}","}",",","{","\"","t","o","o","l","\"",":","\"","n","o","p","e","\"","}","]">>
\* a batch that names callables of the Helpdesk that are not in its tools
UnlistedCalls == <<"[","{","\"","t","o","o","l","\"",":","\"","r","e","s","p","o","n","d","\"",",","\"","a","r","g","s","\"",":","{","\"","r","e","q","u","e","s","t","\"",":","\"","x","\"","}","}",",","{","\"","t","o","o","l","\"",":","\"","t","o","S","t","r","i","n","g","\"",",","\"","a","r","g","s","\"",":","{","}","}",",","{","\"","t","o","o","l","\"",":","\"","a","u","d","i","t","\"",",","\"","a","r","g","s","\"",":","{","\"","e","n","t","r","y","\"",":","\"","e","\"","}","}","]">>
\* args as one mapping, and as the sequence of single-key objects that the
\* tool prompt shows
NoteMapping == <<"[","{","\"","t","o","o","l","\"",":","\"","n","o","t","e","\"",",","\"","a","r","g","s","\"",":","{","\"","t","e","x","t","\"",":","\"","a","\"","}","}","]">>
NoteSequence == <<"[","{","\"","t","o","o","l","\"",":","\"","n","o","t","e","\"",",","\"","a","r","g","s","\"",":","[","{","\"","t","e","x","t","\"",":","\"","a","\"","}","]","}","]">>
\* answers on which step 4 makes no tool call or fails
NotAnArray == <<"{","\"","t","o","o","l","\"",":","\"","n","o","t","e","\"",",","\"","a","r","g","s","\"",":","{","\"","t","e","x","t","\"",":","\"","a","\"","}","}">>
EmptyBatch == <<"[","]">>
NoToolField == <<"[","{","\"","t","e","x","t","\"",":","\"","a","\"","}",",","{","\"","t","o","o","l","\"",":","\"","n","o","t","e","\"",",","\"","a","r","g","s","\"",":","{","\"","t","e","x","t","\"",":","\"","a","\"","}","}","]">>
NoArgs == <<"[","{","\"","t","o","o","l","\"",":","\"","n","o","t","e","\"","}",",","{","\"","t","o","o","l","\"",":","\"","n","o","t","e","\"",",","\"","a","r","g","s","\"",":","{","\"","t","e","x","t","\"",":","\"","b","\"","}","}","]">>
CrashFirst == <<"[","{","\"","t","o","o","l","\"",":","\"","c","r","a","s","h","\"",",","\"","a","r","g","s","\"",":","{","\"","r","e","a","s","o","n","\"",":","\"","r","\"","}","}",",","{","\"","t","o","o","l","\"",":","\"","n","o","t","e","\"",",","\"","a","r","g","s","\"",":","{","\"","t","e","x","t","\"",":","\"","a","\"","}","}","]">>
JokeCall == <<"[","{","\"","t","o","o","l","\"",":","\"","g","e","n","e","r","a","t","e","J","o","k","e","\"",",","\"","a","r","g","s","\"",":","{","\"","t","o","p","i","c","\"",":","\"","x","\"","}","}","]">>

WriterApp ==
    [host |-> Writer,
     exchanges |-> {
        Exchange(<<"g","e","n","e","r","a","t","e","J","o","k","e">>, CuteDog, <<"H","i">>),
        Exchange(<<"a","g","e","n","e","r","a","t","e","J","o","k","e">>, CuteDog, <<"H","i">>),
        Exchange(<<"g","e","n","e","r","a","t","e","J","o","k","e">>, <<Str(<<"a"," ","c","u","t","e"," ","d","o","g">>)>>, <<"H","i">>),
        Exchange(<<"t","r","a","n","s","l","a","t","e","T","e","x","t">>, <<Bool(TRUETEXT), Str(<<"s","a","y"," ","\"","h","i","\"">>)>>, <<"H","i">>) },
     reads |-> { <<"m","e","s","s","a","g","e","s">>, <<"g","e","n","e","r","a","t","e","J","o","k","e">> },
     backend |-> Backend(FALSE, FALSE)]

PublisherApp ==
    [host |-> Publisher,
     exchanges |-> {
        Exchange(<<"g","e","n","e","r","a","t","e","A","n","o","t","h","e","r","J","o","k","e">>, CuteDog, JokeJSON),
        Exchange(<<"g","e","n","e","r","a","t","e","J","s","o","n","J","o","k","e">>, CuteDog, JokeJSON),
        Exchange(<<"g","e","n","e","r","a","t","e","J","s","o","n","J","o","k","e">>, CuteDog, JokeNotJSON),
        Exchange(<<"a","g","e","n","e","r","a","t","e","J","s","o","n","J","o","k","e">>, CuteDog, JokeJSON),
        Exchange(<<"s","u","m","m","a","r","i","z","e">>, <<Str(<<"x">>), Bool(TRUETEXT)>>, <<"H","i">>) },
     reads |-> { <<"s","c","r","a","t","c","h","p","a","d">> },
     backend |-> Backend(FALSE, FALSE)]

Vue2ExpertApp ==
    [host |-> Vue2Expert,
     exchanges |-> {
        Exchange(<<"c","r","e","a","t","e","F","o","r","m">>, FormFields, <<"<","t","e","m","p","l","a","t","e",">","<","b","/",">","<","/","t","e","m","p","l","a","t","e",">">>),
        Exchange(<<"c","r","e","a","t","e","F","o","r","m">>, FormFields, <<"S","o","r","r","y">>),
        Exchange(<<"a","c","r","e","a","t","e","F","o","r","m">>, FormFields, <<"<","t","e","m","p","l","a","t","e",">","<","b","/",">","<","/","t","e","m","p","l","a","t","e",">">>) },
     reads |-> { <<"a","c","r","e","a","t","e","F","o","r","m">> },
     backend |-> Backend(FALSE, FALSE)]

StreamWriterApp ==
    [host |-> StreamWriter,
     exchanges |-> {
        Exchange(<<"w","r","i","t","e","L","o","n","g","S","t","o","r","y">>, <<Str(<<"a"," ","h","e","r","o","i","c"," ","d","o","g">>), Str(<<"K","o","r","e","a","n">>)>>, <<"O","n","c","e"," ","u","p","o","n">>),
        Exchange(<<"a","w","r","i","t","e","L","o","n","g","S","t","o","r","y">>, <<Str(<<"a"," ","h","e","r","o","i","c"," ","d","o","g">>), Str(<<"K","o","r","e","a","n">>)>>, <<"<","p",">","A"," ","d","o","g","<","/","p",">">>) },
     reads |-> { <<"t","o","o","l","s">> },
     backend |-> Backend(FALSE, FALSE)]

OrderTakerApp ==
    [host |-> OrderTaker,
     exchanges |-> {
        Exchange(<<"r","e","s","p","o","n","d","T","o","U","s","e","r">>, <<Str(<<"2"," ","p","i","z","z","a","s","?">>)>>, <<"H","e","l","l","o">>),
        Exchange(<<"r","e","s","p","o","n","d","T","o","U","s","e","r">>, <<Str(<<"2"," ","p","i","z","z","a","s","?">>)>>, OrderCalls),
        Exchange(<<"a","r","e","s","p","o","n","d","T","o","U","s","e","r">>, <<Str(<<"2"," ","p","i","z","z","a","s","?">>)>>, OrderCalls) },
     reads |-> { <<"m","e","s","s","a","g","e","s">>, <<"t","o","o","l","s">> },
     backend |-> Backend(FALSE, FALSE)]

SchedulerApp ==
    [host |-> Scheduler,
     exchanges |-> {
        Exchange(<<"c","r","e","a","t","e","S","c","h","e","d","u","l","e">>, <<Str(<<"t","r","i","p">>)>>, CalculateCall),
        Exchange(<<"c","r","e","a","t","e","S","c","h","e","d","u","l","e">>, <<Str(<<"t","r","i","p">>)>>, <<"n","o">>),
        Exchange(<<"c","r","e","a","t","e","J","s","o","n","S","c","h","e","d","u","l","e">>, <<Str(<<"t","r","i","p">>)>>, CalculateCall) },
     reads |-> { <<"c","a","l","c","u","l","a","t","e">> },
     backend |-> Backend(FALSE, FALSE)]

\* the Writer against a backend that may fail and that sends chunk events
\* although the request is not marked streaming
FailingApp ==
    [host |-> Writer,
     exchanges |-> { Exchange(<<"g","e","n","e","r","a","t","e","J","o","k","e">>, CuteDog, <<"H","i"," ","t","h","e","r","e">>) },
     reads |-> { <<"s","t","r","e","a","m">> },
     backend |-> Backend(TRUE, TRUE)]

\* the streaming Writer against a backend that may fail
FailingStreamApp ==
    [host |-> StreamWriter,
     exchanges |-> { Exchange(<<"w","r","i","t","e","L","o","n","g","S","t","o","r","y">>, CuteDog, <<"O","n","c","e"," ","u","p","o","n">>) },
     reads |-> { <<"s","t","r","e","a","m">> },
     backend |-> Backend(TRUE, FALSE)]

PlannerApp ==
    [host |-> Planner,
     exchanges |-> {
        Exchange(<<"c","r","e","a","t","e","S","c","h","e","d","u","l","e">>, <<Str(<<"t","r","i","p">>)>>, <<"H","i">>),
        Exchange(<<"p","l","a","n">>, <<Str(<<"t","r","i","p">>)>>, <<"H","i">>),
        Exchange(<<"d","r","a","f","t">>, <<Str(<<"t","r","i","p">>)>>, <<"H","i">>),
        Exchange(<<"o","u","t","l","i","n","e">>, <<Str(<<"t","r","i","p">>)>>, <<"H","i">>),
        Exchange(<<"p","o","s","t","p","o","n","e">>, <<Str(<<"t","r","i","p">>)>>, <<"H","i">>) },
     reads |-> { <<"p","l","a","n">> },
     backend |-> Backend(FALSE, FALSE)]

ReviewerApp ==
    [host |-> Reviewer,
     exchanges |-> {
        Exchange(<<"r","e","v","i","e","w">>, <<Str(<<"x">>)>>, JokeJSON),
        Exchange(<<"r","e","v","i","e","w">>, <<Str(<<"x">>)>>, JokeNotJSON),
        Exchange(<<"r","e","v","i","e","w">>, <<Str(<<"x">>)>>, NULLTEXT) },
     reads |-> { <<"m","e","s","s","a","g","e","s">> },
     backend |-> Backend(FALSE, FALSE)]

\* the Helpdesk answered with batches in which one element names no callable
ToolBatchApp ==
    [host |-> Helpdesk,
     exchanges |-> {
        Exchange(<<"r","e","s","p","o","n","d">>, <<Str(<<"x">>)>>, UnknownFirst),
        Exchange(<<"r","e","s","p","o","n","d">>, <<Str(<<"x">>)>>, UnknownMiddle),
        Exchange(<<"r","e","s","p","o","n","d">>, <<Str(<<"x">>)>>, UnknownLast) },
     reads |-> { <<"t","o","o","l","s">> },
     backend |-> Backend(FALSE, FALSE)]

\* the Helpdesk answered with names outside its tools, and with the two
\* forms of args
ToolFormsApp ==
    [host |-> Helpdesk,
     exchanges |-> {
        Exchange(<<"r","e","s","p","o","n","d">>, <<Str(<<"x">>)>>, UnlistedCalls),
        Exchange(<<"r","e","s","p","o","n","d">>, <<Str(<<"x">>)>>, NoteMapping),
        Exchange(<<"r","e","s","p","o","n","d">>, <<Str(<<"x">>)>>, NoteSequence) },
     reads |-> { <<"a","u","d","i","t">> },
     backend |-> Backend(FALSE, FALSE)]

\* the Helpdesk answered with what step 4 does not dispatch
ToolErrorsApp ==
    [host |-> Helpdesk,
     exchanges |-> {
        Exchange(<<"r","e","s","p","o","n","d">>, <<Str(<<"x">>)>>, NotAnArray),
        Exchange(<<"r","e","s","p","o","n","d">>, <<Str(<<"x">>)>>, EmptyBatch),
        Exchange(<<"r","e","s","p","o","n","d">>, <<Str(<<"x">>)>>, NoToolField) },
     reads |-> { <<"n","o","t","e">> },
     backend |-> Backend(FALSE, FALSE)]

\* the Helpdesk answered with batches whose dispatch throws
ToolThrowsApp ==
    [host |-> Helpdesk,
     exchanges |-> {
        Exchange(<<"r","e","s","p","o","n","d">>, <<Str(<<"x">>)>>, NoArgs),
        Exchange(<<"r","e","s","p","o","n","d">>, <<Str(<<"x">>)>>, CrashFirst) },
     reads |-> { <<"c","r","a","s","h">> },
     backend |-> Backend(FALSE, FALSE)]

\* hosts without tools answered with a well-formed batch
EmptyToolsApp ==
    [host |-> IdleScheduler,
     exchanges |-> { Exchange(<<"c","r","e","a","t","e","S","c","h","e","d","u","l","e">>, <<Str(<<"t","r","i","p">>)>>, CalculateCall) },
     reads |-> { <<"t","o","o","l","s">> },
     backend |-> Backend(FALSE, FALSE)]

NoToolsApp ==
    [host |-> Writer,
     exchanges |-> { Exchange(<<"g","e","n","e","r","a","t","e","J","o","k","e">>, CuteDog, JokeCall) },
     reads |-> { <<"t","o","o","l","s">> },
     backend |-> Backend(FALSE, FALSE)]

Apps == {WriterApp, PublisherApp, Vue2ExpertApp, StreamWriterApp, OrderTakerApp,
         SchedulerApp, FailingApp, FailingStreamApp, PlannerApp, ReviewerApp,
         ToolBatchApp, ToolFormsApp, ToolErrorsApp,
         ToolThrowsApp, EmptyToolsApp, NoToolsApp}

(* --------------------------- interception ------------------------------ *)
VARIABLES
    app,        \* the application: its host (the Proxy's target), the calls it
                \* makes, the backend it talks to; fixed after construction
    messages,   \* target.messages: undefined, or the array of turns
    calls,      \* the invocations made on the proxy, in invocation order
    streamLog,  \* the calls of target.stream: [call, chunk], in order
    toolLog,    \* the host callables invoked from model output: [call, tool,
                \* args, memory]
    hookLog,    \* the calls of <method>_sanitizeOutput hooks: [call, arg]
    completed,  \* the invocations whose future resolved, in resolution order
    lastRead    \* the last property read on the proxy: <<[key, got]>>, <<>> if none

vars == <<app, messages, calls, streamLog, toolLog, hookLog, completed, lastRead>>

host == app.host

\* what every host inherits from Object.prototype, as far as the texts of
\* the model name it
ObjectPrototype ==
    << MkFunction(<<"t","o","S","t","r","i","n","g">>, <<>>, <<"f","u","n","c","t","i","o","n"," ","t","o","S","t","r","i","n","g","(",")"," ","{"," ","[","n","a","t","i","v","e"," ","c","o","d","e","]"," ","}">>,
                  "return", Str(OBJECTTEXT)) >>

\* the functions target[name] can give: the class's methods, then inherited ones
FunctionsOf(h) == h.methods \o ObjectPrototype

\* does the host have a function of this name
HasFunction(h, name) == \E i \in 1..Len(FunctionsOf(h)) : FunctionsOf(h)[i].name = name
FunctionOf(h, name) ==
    FunctionsOf(h)[CHOOSE i \in 1..Len(FunctionsOf(h)) : FunctionsOf(h)[i].name = name]

\* target[key]
TargetGet(h, msgs, key) ==
    IF HasFunction(h, key) THEN Fn(key)
    ELSE IF key = <<"m","e","s","s","a","g","e","s">> THEN msgs
    ELSE IF key = <<"t","o","o","l","s">> THEN h.tools
    ELSE Undef

\* the callable handler.get returns: it closes over propKey and origMethod
Interceptor(propKey, origMethod, async) ==
    [t |-> "interceptor", s |-> propKey,
     items |-> <<origMethod, Bool(IF async THEN TRUETEXT ELSE FALSETEXT)>>]

\* handler.get that resolves the alias but keeps the alias as propKey
handlerGetKeepsKey(h, msgs, propKey) ==
    LET origMethod == TargetGet(h, msgs, propKey)
        alias == /\ ~Truthy(origMethod)
                 /\ startsWith(propKey, <<"a">>)
                 /\ Truthy(TargetGet(h, msgs, substring1(propKey)))
    IN  IF alias
        THEN Interceptor(propKey, TargetGet(h, msgs, substring1(propKey)), TRUE)
        ELSE Interceptor(propKey, origMethod, FALSE)

\* handler.get(target, propKey, receiver)
handlerGet(h, msgs, propKey) ==
    LET origMethod == TargetGet(h, msgs, propKey)
        alias == /\ ~Truthy(origMethod)
                 /\ startsWith(propKey, <<"a">>)
                 /\ Truthy(TargetGet(h, msgs, substring1(propKey)))
    IN  IF alias
        THEN Interceptor(substring1(propKey), TargetGet(h, msgs, substring1(propKey)), TRUE)
        ELSE Interceptor(propKey, origMethod, FALSE)

\* getParamNames(func)
getParamNames(func) ==
    LET funcStr == func.src
    IN  matchTokens(slice(funcStr, indexOf(funcStr, "(") + 1, indexOf(funcStr, ")")))

\* the pieces of the auto-derived prompt other than the parameter listing
autoPromptHead(h, propKey) ==
    <<"A","s"," ","a"," ">> \o h.ctor \o <<","," ">>
      \o toLowerCase(trim(replaceCapitals(propKey)))
      \o <<" ","w","i","t","h"," ","p","a","r","a","m","e","t","e","r","s",":">>
selfCriticism(underscoreParamNames) ==
    IF Len(underscoreParamNames) > 0
    THEN <<"\n","\n","S","E","L","F"," ","C","R","I","T","I","C","I","S","M",":">>
           \o Flatten([i \in 1..Len(underscoreParamNames) |->
                          <<"\n","-"," ">> \o underscoreParamNames[i]])
    ELSE <<>>

\* an auto-derivation that numbers the arguments by the listed parameters only
autoPromptPacked(h, propKey, args) ==
    LET paramNames == getParamNames(FunctionOf(h, propKey))
        listed == SelectSeq(paramNames, LAMBDA name : ~includes(name, <<"_">>))
        directives == SelectSeq(paramNames, LAMBDA name : includes(name, <<"_">>))
    IN  autoPromptHead(h, propKey)
          \o Flatten([index \in 1..Len(listed) |->
                <<"\n","-"," ">> \o listed[index] \o <<":"," ">> \o JSONstringify(ArgAt(args, index))])
          \o selfCriticism([i \in 1..Len(directives) |->
                toUpperCase(replaceUnderscores(directives[i]))])

\* name.replace('_', ' '): only the first underscore
replaceFirstUnderscore(s) ==
    [i \in 1..Len(s) |-> IF i = indexOf(s, "_") + 1 THEN " " ELSE s[i]]

\* an auto-derivation whose directive names lose their first underscore only
autoPromptFirstUnderscore(h, propKey, args) ==
    LET paramNames == getParamNames(FunctionOf(h, propKey))
        directives == SelectSeq(paramNames, LAMBDA name : includes(name, <<"_">>))
    IN  autoPromptHead(h, propKey)
          \o Flatten([index \in 1..Len(paramNames) |->
                IF ~includes(paramNames[index], <<"_">>)
                THEN <<"\n","-"," ">> \o paramNames[index] \o <<":"," ">>
                        \o JSONstringify(ArgAt(args, index))
                ELSE <<>>])
          \o selfCriticism([i \in 1..Len(directives) |->
                toUpperCase(replaceFirstUnderscore(directives[i]))])

\* the auto-derived prompt (the body of `if (!prompt)`)
autoPrompt(h, propKey, args) ==
    LET paramNames == getParamNames(FunctionOf(h, propKey))
        listing == Flatten([index \in 1..Len(paramNames) |->
                      IF ~includes(paramNames[index], <<"_">>)
                      THEN <<"\n","-"," ">> \o paramNames[index] \o <<":"," ">>
                              \o JSONstringify(ArgAt(args, index))
                      ELSE <<>>])
        directives == SelectSeq(paramNames, LAMBDA name : includes(name, <<"_">>))
        underscoreParamNames ==
            [i \in 1..Len(directives) |-> toUpperCase(replaceUnderscores(directives[i]))]
    IN  autoPromptHead(h, propKey) \o listing \o selfCriticism(underscoreParamNames)

\* a synthesis that auto-derives whatever the method returns
synthesizeAlwaysDerives(h, msgs, icpt, args) ==
    LET origMethod == icpt.items[1]
        r == IF origMethod.t = "function" THEN Apply(FunctionOf(h, origMethod.s), args)
             ELSE [threw |-> TRUE, v |-> Undef]
    IN  IF r.threw \/ r.v.t = "null" \/ TargetGet(h, msgs, icpt.s).t # "function"
        THEN [threw |-> TRUE, prompt |-> <<>>]
        ELSE [threw |-> FALSE, prompt |-> autoPrompt(h, icpt.s, args)]

\* the prompt after the method was applied: threw when the method throws,
\* its return value is null (typeof null is "object", null.prompt throws) or
\* target[propKey] is no function (getParamNames calls toString on it)
synthesize(h, msgs, icpt, args) ==
    LET origMethod == icpt.items[1]
        r == IF origMethod.t = "function" THEN Apply(FunctionOf(h, origMethod.s), args)
             ELSE [threw |-> TRUE, v |-> Undef]
        prompt == IF r.v.t \in {"object", "array"} THEN GetProp(r.v, <<"p","r","o","m","p","t">>) ELSE r.v
    IN  IF r.threw \/ r.v.t = "null" THEN [threw |-> TRUE, prompt |-> <<>>]
        ELSE IF ~Truthy(prompt)
        THEN (IF TargetGet(h, msgs, icpt.s).t = "function"
              THEN [threw |-> FALSE, prompt |-> autoPrompt(h, icpt.s, args)]
              ELSE [threw |-> TRUE, prompt |-> <<>>])
        ELSE [threw |-> FALSE, prompt |-> ToStringJS(prompt)]

ToolPromptHead == <<"\n","Y","o","u"," ","c","a","n"," ","O","N","L","Y"," ","u","s","e"," ","f","o","l","l","o","w","i","n","g"," ","t","o","o","l","s"," ","l","i","s","t"," ","t","o"," ","p","r","o","c","e","s","s"," ","t","h","e"," ","u","s","e","r","s","'","s"," ","r","e","q","u","e","s","t",":","\n">>
ToolPromptTail == <<"\n","r","e","t","u","r","n"," ","t","h","e"," ","t","o","o","l"," ","i","n","v","o","c","a","t","i","o","n","s"," ","(","m","a","y"," ","b","e"," ","o","n","e"," ","o","r"," ","m","o","r","e",")"," ","c","o","n","t","e","x","t"," ","w","i","t","h"," ","f","o","l","l","o","w","i","n","g"," ","J","S","O","N"," ","f","o","r","m","a","t",":","\n","\n","[","{","\n"," "," "," "," ","\"","t","o","o","l","\"",":"," ","\"","t","o","o","l"," ","n","a","m","e"," ","t","o"," ","i","n","v","o","k","e","\"",",","\n"," "," "," "," ","\"","a","r","g","s","\"",":","[","\n"," "," "," "," "," "," "," "," ","{","\n"," "," "," "," "," "," "," "," "," "," "," "," ","\"","a","r","g"," ","n","a","m","e","\""," ",":"," ","\"","a","r","g"," ","v","a","l","u","e","\"","\n"," "," "," "," "," "," "," "," ","}"," ","\n"," "," "," "," ","]",",","\n"," "," "," "," ","\"","m","e","s","s","a","g","e","T","o","U","s","e","r","\"",":"," ","\"","a","d","d","i","t","i","o","n","a","l"," ","m","e","s","s","a","g","e"," ","t","o"," ","u","s","e","r","\"","\n","}","]","\n","\n","I","f"," ","t","h","e"," ","r","e","q","u","e","s","t"," ","d","o","e","s"," ","n","o","t"," ","e","x","i","s","t"," ","i","n"," ","t","h","e"," ","t","o","o","l"," ","l","i","s","t",","," ","y","o","u"," ","M","U","S","T"," ","r","e","t","u","r","n"," ","t","h","a","t"," ","t","h","e"," ","r","e","q","u","e","s","t","e","d"," ","q","u","e","s","t","i","o","n"," ","c","a","n","n","o","t"," ","b","e"," ","p","r","o","c","e","s","s","e","d",".","\n"," "," "," "," "," "," "," "," "," "," "," "," "," "," "," "," "," "," "," "," ">>

\* a compiler without the `if(toolDef)` test
compileToolPromptAlways(h) ==
    IF Truthy(h.tools) /\ h.tools.t = "array"
    THEN LET toolDef == Flatten([i \in 1..Len(h.tools.items) |->
                 <<"-"," ">> \o h.tools.items[i].s \o <<","," ","a","r","g","s",":"," ">>
                   \o Join(getParamNames(FunctionOf(h, h.tools.items[i].s)), <<","," ">>)
                   \o <<"\n">>])
         IN  ToolPromptHead \o toolDef \o ToolPromptTail
    ELSE <<>>

\* toolPrompt: the tool-directive block, <<>> standing for null
compileToolPrompt(h) ==
    IF Truthy(h.tools) /\ h.tools.t = "array"
    THEN LET toolDef == Flatten([i \in 1..Len(h.tools.items) |->
                 <<"-"," ">> \o h.tools.items[i].s \o <<","," ","a","r","g","s",":"," ">>
                   \o Join(getParamNames(FunctionOf(h, h.tools.items[i].s)), <<","," ">>)
                   \o <<"\n">>])
         IN  IF toolDef # <<>> THEN ToolPromptHead \o toolDef \o ToolPromptTail ELSE <<>>
    ELSE <<>>

\* the prompt given to the generator
dispatchPrompt(prompt, toolPrompt) ==
    IF toolPrompt # <<>> THEN prompt \o <<"\n","\n">> \o toolPrompt ELSE prompt

\* typeof target.stream === 'function'
HasStreamSink(h, msgs) == TargetGet(h, msgs, <<"s","t","r","e","a","m">>).t = "function"

\* aiGenerator.options.isStream
isStreamOption(h, msgs) == HasStreamSink(h, msgs)

(* --------------------------- reconciliation ---------------------------- *)
\* Object.keys(v).map(key => v[key]); threw for undefined and null.
\* (Keys that are array indices would come first in an object; the texts
\* of the model use none.)
objectValues(v) ==
    CASE v.t \in {"undefined", "null"} -> [threw |-> TRUE, vals |-> <<>>]
      [] v.t = "object" -> [threw |-> FALSE,
                            vals |-> [i \in 1..Len(v.items) |-> v.items[i].items[1]]]
      [] v.t = "array" -> [threw |-> FALSE, vals |-> v.items]
      [] v.t = "string" -> [threw |-> FALSE, vals |-> [i \in 1..Len(v.s) |-> Str(<<v.s[i]>>)]]
      [] OTHER -> [threw |-> FALSE, vals |-> <<>>]

\* v.hasOwnProperty(k) for a parsed JSON value that is not null
hasOwnProperty(v, k) == v.t = "object" /\ \E i \in 1..Len(v.items) : v.items[i].s = k

RECURSIVE dispatchToolsUntilUnknown(_, _, _, _)
\* a forEach that is left at the first element naming no callable
dispatchToolsUntilUnknown(h, msgs, elems, acc) ==
    IF elems = <<>> THEN acc
    ELSE LET toolInvocation == Head(elems)
             name == ToStringJS(GetProp(toolInvocation, <<"t","o","o","l">>))
             f == TargetGet(h, msgs, name)
             a == objectValues(GetProp(toolInvocation, <<"a","r","g","s">>))
         IN  IF toolInvocation.t = "null" THEN acc
             ELSE IF ~(Truthy(f) /\ f.t = "function") THEN acc
             ELSE IF a.threw THEN acc
             ELSE IF Apply(FunctionOf(h, name), a.vals).threw
                  THEN Append(acc, [tool |-> name, args |-> a.vals])
             ELSE dispatchToolsUntilUnknown(h, msgs, Tail(elems),
                                Append(acc, [tool |-> name, args |-> a.vals]))

RECURSIVE dispatchTools(_, _, _, _)
\* parsedResult.forEach(toolInvocation => ...): the host callables invoked,
\* in order, up to the first exception (which leaves forEach)
dispatchTools(h, msgs, elems, acc) ==
    IF elems = <<>> THEN acc
    ELSE LET toolInvocation == Head(elems)
             name == ToStringJS(GetProp(toolInvocation, <<"t","o","o","l">>))
             f == TargetGet(h, msgs, name)
             a == objectValues(GetProp(toolInvocation, <<"a","r","g","s">>))
         IN  IF toolInvocation.t = "null" THEN acc
             ELSE IF ~(Truthy(f) /\ f.t = "function") THEN dispatchTools(h, msgs, Tail(elems), acc)
             ELSE IF a.threw THEN acc
             ELSE IF Apply(FunctionOf(h, name), a.vals).threw
                  THEN Append(acc, [tool |-> name, args |-> a.vals])
             ELSE dispatchTools(h, msgs, Tail(elems),
                                Append(acc, [tool |-> name, args |-> a.vals]))

\* a step 4 without the `if(toolPrompt)` test
toolCallsUnguarded(h, msgs, hasToolPrompt, result) ==
    With(JSONparse(result), LAMBDA parsedResult :
        IF /\ parsedResult.ok
           /\ parsedResult.v.t = "array"
           /\ Len(parsedResult.v.items) > 0
           /\ parsedResult.v.items[1].t # "null"
           /\ hasOwnProperty(parsedResult.v.items[1], <<"t","o","o","l">>)
        THEN dispatchTools(h, msgs, parsedResult.v.items, <<>>)
        ELSE <<>>)

\* step 4 of onGenerationFinished: the tool calls made for a step-2 value
toolCalls(h, msgs, hasToolPrompt, result) ==
    IF ~hasToolPrompt THEN <<>>
    ELSE With(JSONparse(result), LAMBDA parsedResult :
             IF /\ parsedResult.ok
                /\ parsedResult.v.t = "array"
                /\ Len(parsedResult.v.items) > 0
                /\ parsedResult.v.items[1].t # "null"
                /\ hasOwnProperty(parsedResult.v.items[1], <<"t","o","o","l">>)
             THEN dispatchTools(h, msgs, parsedResult.v.items, <<>>)
             ELSE <<>>)

RECURSIVE dispatchThrows(_, _, _)
\* whether parsedResult.forEach(...) is left by an exception: an element
\* that is null, an existing tool whose element has no args, a tool that throws
dispatchThrows(h, msgs, elems) ==
    IF elems = <<>> THEN FALSE
    ELSE LET toolInvocation == Head(elems)
             name == ToStringJS(GetProp(toolInvocation, <<"t","o","o","l">>))
             f == TargetGet(h, msgs, name)
             a == objectValues(GetProp(toolInvocation, <<"a","r","g","s">>))
         IN  IF toolInvocation.t = "null" THEN TRUE
             ELSE IF ~(Truthy(f) /\ f.t = "function") THEN dispatchThrows(h, msgs, Tail(elems))
             ELSE IF a.threw THEN TRUE
             ELSE IF Apply(FunctionOf(h, name), a.vals).threw THEN TRUE
             ELSE dispatchThrows(h, msgs, Tail(elems))

\* whether the try block of step 4 throws for a step-2 value
toolCallsThrow(h, msgs, hasToolPrompt, result) ==
    IF ~hasToolPrompt THEN FALSE
    ELSE With(JSONparse(result), LAMBDA parsedResult :
             IF ~parsedResult.ok THEN TRUE
             ELSE IF parsedResult.v.t = "array" /\ Len(parsedResult.v.items) > 0
             THEN (IF parsedResult.v.items[1].t = "null" THEN TRUE
                   ELSE IF hasOwnProperty(parsedResult.v.items[1], <<"t","o","o","l">>)
                   THEN dispatchThrows(h, msgs, parsedResult.v.items)
                   ELSE FALSE)
             ELSE FALSE)

\* a catch clause that throws the error again
rethrowToolError(threw) == threw

\* catch (error) { console.error(...) } of step 4: whether the exception
\* leaves onGenerationFinished
catchToolError(threw) == FALSE

\* a coercion that parses whatever the prompt says
coerceAlways(prompt, text) ==
    With(JSONparse(Str(text)), LAMBDA r : IF r.ok THEN r.v ELSE Str(text))

\* step 1: JSON coercion when the prompt carries the marker
coerce(prompt, text) ==
    IF includes(prompt, JSONMarker)
    THEN With(JSONparse(Str(text)), LAMBDA r : IF r.ok THEN r.v ELSE Str(text))
    ELSE Str(text)

\* step 2: the <propKey>_sanitizeOutput hook; called = FALSE when the host has none
sanitize(h, msgs, propKey, result) ==
    LET sanitizeMethod == TargetGet(h, msgs, propKey \o <<"_","s","a","n","i","t","i","z","e","O","u","t","p","u","t">>)
    IN  IF sanitizeMethod.t = "function"
        THEN LET r == Apply(FunctionOf(h, sanitizeMethod.s), <<result>>)
             IN  [called |-> TRUE, threw |-> r.threw, v |-> r.v]
        ELSE [called |-> FALSE, threw |-> FALSE, v |-> result]

\* target.messages.unshift(..) in the place of push
pushMessageUnshift(msgs, result) ==
    IF Truthy(msgs) /\ msgs.t = "array"
    THEN Arr(<<Message(<<"s","y","s","t","e","m">>, result)>> \o msgs.items)
    ELSE msgs

\* step 3: target.messages.push({role: "system", content: result})
pushMessage(msgs, result) ==
    IF Truthy(msgs) /\ msgs.t = "array"
    THEN Arr(Append(msgs.items, Message(<<"s","y","s","t","e","m">>, result)))
    ELSE msgs

\* the number of turns target.messages holds
turns(msgs) == IF msgs.t = "array" THEN Len(msgs.items) ELSE 0

\* a tool loop that finds target.messages as it was before step 3
memoryBeforeAppend(msgs, result) == msgs

\* target.messages as the tool loop of step 4 finds it: step 3 has run
memoryAtDispatch(msgs, result) == pushMessage(msgs, result)

\* an onStream that forwards the first chunk of a request only
onStreamFirstOnly(h, msgs, log, i, chunk) ==
    IF HasStreamSink(h, msgs) /\ \A k \in 1..Len(log) : log[k].call # i
    THEN Append(log, [call |-> i, chunk |-> chunk]) ELSE log

\* onStream(chunk): the sink calls after this chunk
onStream(h, msgs, log, i, chunk) ==
    IF HasStreamSink(h, msgs) THEN Append(log, [call |-> i, chunk |-> chunk]) ELSE log

(* ------------------------------ backend -------------------------------- *)
\* characters in a chunk event that is not the last one allowed
ChunkLen == 4

\* the next chunk of a text of which `sent` characters were emitted in
\* `count` chunk events
nextChunk(text, sent, count) ==
    IF count + 1 >= MaxChunks \/ sent + ChunkLen >= Len(text)
    THEN SubSeq(text, sent + 1, Len(text))
    ELSE SubSeq(text, sent + 1, sent + ChunkLen)

(* ------------------------------ actions -------------------------------- *)
Init ==
    /\ app \in Apps
    /\ messages = host.messages
    /\ calls = <<>>
    /\ streamLog = <<>>
    /\ toolLog = <<>>
    /\ hookLog = <<>>
    /\ completed = <<>>
    /\ lastRead = <<>>

\* proxy[key] read without a call
Get(key) ==
    /\ lastRead' = <<[key |-> key, got |-> handlerGet(host, messages, key)]>>
    /\ UNCHANGED <<app, messages, calls, streamLog, toolLog, hookLog, completed>>

\* proxy[key](...args): handler.get, then the returned function up to and
\* including aiGenerator.generate().  text is what the backend will answer;
\* generateThrows is generate() failing before it returns.
Invoke(key, args, text, generateThrows) ==
    /\ Len(calls) < MaxCalls
    /\ \E icpt \in {handlerGet(host, messages, key)} :
       \E syn \in {synthesize(host, messages, icpt, args)} :
       \E toolPrompt \in {compileToolPrompt(host)} :
       \E started \in {~syn.threw} :
           calls' = Append(calls,
              [key |-> key, propKey |-> icpt.s, args |-> args, text |-> text,
               synth |-> syn.prompt,
               hasToolPrompt |-> started /\ toolPrompt # <<>>,
               prompt |-> IF started THEN dispatchPrompt(syn.prompt, toolPrompt) ELSE <<>>,
               previousMessages |-> started /\ Truthy(messages),
               isStream |-> started /\ isStreamOption(host, messages),
               requests |-> IF started THEN 1 ELSE 0,
               backend |-> IF ~started THEN "none"
                           ELSE IF generateThrows THEN "failed" ELSE "running",
               failure |-> IF started /\ generateThrows THEN "sync" ELSE "none",
               emitted |-> <<>>, sent |-> 0,
               future |-> IF ~started THEN "none"
                          ELSE IF generateThrows THEN "rejected" ELSE "pending",
               value |-> Undef])
    /\ UNCHANGED <<app, messages, streamLog, toolLog, hookLog, completed, lastRead>>

\* the backend emits the next chunk of request i: onStream(chunk)
BackendChunk(i) ==
    /\ calls[i].backend = "running"
    /\ calls[i].isStream \/ app.backend.unasked
    /\ calls[i].sent < Len(calls[i].text)
    /\ Len(calls[i].emitted) < MaxChunks
    /\ LET chunk == nextChunk(calls[i].text, calls[i].sent, Len(calls[i].emitted))
       IN  /\ calls' = [calls EXCEPT ![i].emitted = Append(@, chunk),
                                     ![i].sent = @ + Len(chunk)]
           /\ streamLog' = onStream(host, messages, streamLog, i, chunk)
    /\ UNCHANGED <<app, messages, toolLog, hookLog, completed, lastRead>>

\* a completion event that hands over the text of the latest request, as
\* with one generator shared by the calls of a host
BackendFinishLatest(i) ==
    /\ calls[i].backend = "running"
    /\ calls[i].isStream => calls[i].sent = Len(calls[i].text)
    /\ LET c == [calls[i] EXCEPT !.text = calls[Len(calls)].text]
       IN  \E step1 \in {coerce(c.prompt, c.text)} :
           \E step2 \in {sanitize(host, messages, c.propKey, step1)} :
           \E seen \in {memoryAtDispatch(messages, step2.v)} :
           \E tools4 \in {toolCalls(host, seen, c.hasToolPrompt, step2.v)} :
           \E escaped \in {catchToolError(toolCallsThrow(host, seen, c.hasToolPrompt, step2.v))} :
           /\ hookLog' = IF step2.called THEN Append(hookLog, [call |-> i, arg |-> step1])
                         ELSE hookLog
           /\ IF step2.threw
              THEN /\ calls' = [calls EXCEPT ![i].backend = "done"]
                   /\ UNCHANGED <<messages, toolLog, completed>>
              ELSE /\ messages' = pushMessage(messages, step2.v)
                   /\ toolLog' = toolLog \o [k \in 1..Len(tools4) |->
                                    [call |-> i, tool |-> tools4[k].tool, args |-> tools4[k].args,
                                     memory |-> turns(seen)]]
                   /\ IF escaped
                      THEN /\ calls' = [calls EXCEPT ![i].backend = "done"]
                           /\ UNCHANGED completed
                      ELSE /\ calls' = [calls EXCEPT ![i].backend = "done",
                                                     ![i].future = "resolved",
                                                     ![i].value = step2.v]
                           /\ completed' = Append(completed, i)
    /\ UNCHANGED <<app, streamLog, lastRead>>

\* the completion event of request i: onGenerationFinished(text), steps 1
\* to 5 in the order of the code; an exception of the hook leaves the
\* callback at step 2
BackendFinish(i) ==
    /\ calls[i].backend = "running"
    /\ calls[i].isStream => calls[i].sent = Len(calls[i].text)
    /\ LET c == calls[i]
       IN  \E step1 \in {coerce(c.prompt, c.text)} :
           \E step2 \in {sanitize(host, messages, c.propKey, step1)} :
           \E seen \in {memoryAtDispatch(messages, step2.v)} :
           \E tools4 \in {toolCalls(host, seen, c.hasToolPrompt, step2.v)} :
           \E escaped \in {catchToolError(toolCallsThrow(host, seen, c.hasToolPrompt, step2.v))} :
           /\ hookLog' = IF step2.called THEN Append(hookLog, [call |-> i, arg |-> step1])
                         ELSE hookLog
           /\ IF step2.threw
              THEN /\ calls' = [calls EXCEPT ![i].backend = "done"]
                   /\ UNCHANGED <<messages, toolLog, completed>>
              ELSE /\ messages' = pushMessage(messages, step2.v)
                   /\ toolLog' = toolLog \o [k \in 1..Len(tools4) |->
                                    [call |-> i, tool |-> tools4[k].tool, args |-> tools4[k].args,
                                     memory |-> turns(seen)]]
                   /\ IF escaped
                      THEN /\ calls' = [calls EXCEPT ![i].backend = "done"]
                           /\ UNCHANGED completed
                      ELSE /\ calls' = [calls EXCEPT ![i].backend = "done",
                                                     ![i].future = "resolved",
                                                     ![i].value = step2.v]
                           /\ completed' = Append(completed, i)
    /\ UNCHANGED <<app, streamLog, lastRead>>

\* request i fails after generate() returned: no callback of the request's
\* client is called
BackendFail(i) ==
    /\ app.backend.fails
    /\ calls[i].backend = "running"
    /\ calls' = [calls EXCEPT ![i].backend = "failed", ![i].failure = "async"]
    /\ UNCHANGED <<app, messages, streamLog, toolLog, hookLog, completed, lastRead>>

Next ==
    \/ \E key \in app.reads : Get(key)
    \/ \E e \in app.exchanges, generateThrows \in {FALSE, app.backend.fails} :
          Invoke(e.key, e.args, e.text, generateThrows)
    \/ \E i \in 1..Len(calls) : BackendChunk(i)
    \/ \E i \in 1..Len(calls) : BackendFinish(i)
    \/ \E i \in 1..Len(calls) : BackendFail(i)

Spec == Init /\ [][Next]_vars

(* ------------------------------ claims --------------------------------- *)
\* the host method a proxy key stands for: the key itself, or the key
\* without its leading 'a'
MethodOfKey(key) == IF HasFunction(host, key) THEN key ELSE substring1(key)
IsMethodKey(key) ==
    \/ HasFunction(host, key)
    \/ startsWith(key, <<"a">>) /\ HasFunction(host, substring1(key))

\* the calls for which a request was built
Started(i) == calls[i].future # "none"
Resolved(i) == calls[i].future = "resolved"
CallIds == 1..Len(calls)

\* the method of call i, as the host declares it
Declared(i) == FunctionOf(host, MethodOfKey(calls[i].key))
ReturnsNothing(f) == f.body = "return" /\ f.out = Undef
IsDirective(name) == \E k \in 1..Len(name) : name[k] = "_"

\* C1: a property read on the proxy whose key is neither a host method nor
\* an 'a'-prefixed alias of one yields the host's own value for that key.
C1_PassThrough ==
    \A k \in 1..Len(lastRead) :
        ~IsMethodKey(lastRead[k].key)
            => lastRead[k].got = TargetGet(host, messages, lastRead[k].key)

\* the strings the methods of the model's hosts author, for the arguments
\* the applications pass
AuthoredPrompt(name) ==
    CASE name = <<"g","e","n","e","r","a","t","e","A","n","o","t","h","e","r","J","o","k","e">> -> <<"p","l","e","a","s","e"," ","g","e","n","e","r","a","t","e"," ","a"," ","j","o","k","e"," ","f","o","r"," ","a"," ","c","u","t","e"," ","d","o","g"," ","i","n"," ","K","o","r","e","a","n"," ","l","a","n","g","u","a","g","e",".">>
      [] name = <<"g","e","n","e","r","a","t","e","J","s","o","n","J","o","k","e">> -> <<"j","o","k","e"," ","f","o","r"," ","a"," ","c","u","t","e"," ","d","o","g","."," ","r","e","s","u","l","t"," ","m","u","s","t"," ","b","e"," ","i","n"," ","J","S","O","N"," ","f","o","r","m","a","t",":"," ","{","t","i","t","l","e",","," ","c","o","n","t","e","n","t","}">>
      [] name = <<"s","u","m","m","a","r","i","z","e">> -> <<"S","u","m","m","a","r","i","z","e"," ","i","t">>
      [] name = <<"c","r","e","a","t","e","J","s","o","n","S","c","h","e","d","u","l","e">> -> <<"p","l","a","n"," ","i","t","."," ","r","e","s","u","l","t"," ","m","u","s","t"," ","b","e"," ","i","n"," ","J","S","O","N"," ","f","o","r","m","a","t",":"," ","[",".",".",".","]">>
      [] name = <<"r","e","v","i","e","w">> -> <<"r","e","v","i","e","w"," ","i","t","."," ","r","e","s","u","l","t"," ","m","u","s","t"," ","b","e"," ","i","n"," ","J","S","O","N"," ","f","o","r","m","a","t",":"," ","{","t","i","t","l","e",","," ","c","o","n","t","e","n","t","}">>
      [] OTHER -> <<>>

\* C2: when the method's body returns a non-empty string, the synthesized
\* prompt is that string exactly, directive parameters or not.
C2_AuthoredVerbatim ==
    \A i \in CallIds :
        LET r == Apply(Declared(i), calls[i].args)
        IN  (~r.threw /\ r.v.t = "string" /\ r.v.s # <<>>)
                => /\ Started(i)
                   /\ calls[i].synth = r.v.s
                   /\ calls[i].synth = AuthoredPrompt(Declared(i).name)

C2_Witness ==
    \E i \in CallIds :
        /\ Declared(i).name = <<"s","u","m","m","a","r","i","z","e">>
        /\ \E k \in 1..Len(Declared(i).params) : IsDirective(Declared(i).params[k])
        /\ Resolved(i)
        /\ calls[i].synth = <<"S","u","m","m","a","r","i","z","e"," ","i","t">>

RECURSIVE WordsOf(_, _)
\* a camel-case name split at capitals into lower-case words joined by
\* single spaces; cur is the word being read
WordsOf(name, cur) ==
    IF name = <<>> THEN cur
    ELSE IF Head(name) \in Range(UpperChars)
         THEN (IF cur = <<>> THEN <<>> ELSE cur \o <<" ">>)
                \o WordsOf(Tail(name), <<toLowerChar(Head(name))>>)
         ELSE WordsOf(Tail(name), Append(cur, Head(name)))

RECURSIVE ParameterLines(_, _, _)
\* the "- name: value" lines for the declared parameters from position k on
ParameterLines(params, args, k) ==
    IF k > Len(params) THEN <<>>
    ELSE (IF IsDirective(params[k]) THEN <<>>
          ELSE <<"\n","-"," ">> \o params[k] \o <<":"," ">> \o JSONstringify(ArgAt(args, k)))
         \o ParameterLines(params, args, k + 1)

\* the persona, the mission and the parameter listing of an auto-derived prompt
ExpectedListing(i) ==
    <<"A","s"," ","a"," ">> \o host.ctor \o <<","," ">> \o WordsOf(Declared(i).name, <<>>)
        \o <<" ","w","i","t","h"," ","p","a","r","a","m","e","t","e","r","s",":">>
        \o ParameterLines(Declared(i).params, calls[i].args, 1)

\* C3: for a method returning nothing the prompt is "As a {constructor}, "
\* + the method name in lower-case words + " with parameters:" + one
\* "- name: JSON value" line per parameter without underscore, in
\* declaration order, each with the argument at its own declared position.
C3_AutoDerived ==
    \A i \in CallIds :
        ReturnsNothing(Declared(i)) =>
            /\ Started(i)
            /\ startsWith(calls[i].synth, ExpectedListing(i))
            /\ (\A k \in 1..Len(Declared(i).params) : ~IsDirective(Declared(i).params[k]))
                    => calls[i].synth = ExpectedListing(i)
            /\ (host.ctor = <<"W","r","i","t","e","r">> /\ Declared(i).name = <<"g","e","n","e","r","a","t","e","J","o","k","e">>
                    /\ calls[i].args = CuteDog)
                    => calls[i].synth = <<"A","s"," ","a"," ","W","r","i","t","e","r",","," ","g","e","n","e","r","a","t","e"," ","j","o","k","e"," ","w","i","t","h"," ","p","a","r","a","m","e","t","e","r","s",":","\n","-"," ","t","o","p","i","c",":"," ","\"","a"," ","c","u","t","e"," ","d","o","g","\"","\n","-"," ","l","a","n","g","u","a","g","e",":"," ","\"","K","o","r","e","a","n","\"">>
            /\ Declared(i).name = <<"t","r","a","n","s","l","a","t","e","T","e","x","t">>
                    => startsWith(calls[i].synth, <<"A","s"," ","a"," ","W","r","i","t","e","r",","," ","t","r","a","n","s","l","a","t","e"," ","t","e","x","t"," ","w","i","t","h"," ","p","a","r","a","m","e","t","e","r","s",":","\n","-"," ","t","e","x","t",":"," ","\"","s","a","y"," ","\\","\"","h","i","\\","\"","\"">>)

C3_Witness ==
    /\ \E i \in CallIds :
        /\ calls[i].key = <<"g","e","n","e","r","a","t","e","J","o","k","e">> /\ calls[i].args = CuteDog /\ Resolved(i)
        /\ calls[i].synth = <<"A","s"," ","a"," ","W","r","i","t","e","r",","," ","g","e","n","e","r","a","t","e"," ","j","o","k","e"," ","w","i","t","h"," ","p","a","r","a","m","e","t","e","r","s",":","\n","-"," ","t","o","p","i","c",":"," ","\"","a"," ","c","u","t","e"," ","d","o","g","\"","\n","-"," ","l","a","n","g","u","a","g","e",":"," ","\"","K","o","r","e","a","n","\"">>
    /\ \E i \in CallIds : calls[i].key = <<"t","r","a","n","s","l","a","t","e","T","e","x","t">> /\ Resolved(i)

endsWith(s, suf) == Len(s) >= Len(suf) /\ SubSeq(s, Len(s) - Len(suf) + 1, Len(s)) = suf

\* a directive parameter's name as an instruction: underscores turned to
\* spaces, letters to upper case
DirectiveText(name) ==
    [k \in 1..Len(name) |-> IF name[k] = "_" THEN " " ELSE toUpperChar(name[k])]

\* the SELF CRITICISM block for the directive parameters a method declares
ExpectedBlock(i) ==
    LET D == SelectSeq(Declared(i).params, IsDirective)
    IN  IF D = <<>> THEN <<>>
        ELSE <<"\n","\n","S","E","L","F"," ","C","R","I","T","I","C","I","S","M",":">>
                \o Flatten([k \in 1..Len(D) |-> <<"\n","-"," ">> \o DirectiveText(D[k])])

\* the part of C4 that does not depend on how many spaces a double
\* underscore becomes
DirectivesKeptApart(i) ==
    LET params == Declared(i).params
    IN  /\ Started(i)
        /\ calls[i].synth = ExpectedListing(i) \o ExpectedBlock(i)
        /\ includes(calls[i].synth, <<"S","E","L","F"," ","C","R","I","T","I","C","I","S","M",":">>)
                <=> (\E k \in 1..Len(params) : IsDirective(params[k]))
        /\ \A k \in 1..Len(params) :
                IsDirective(params[k]) =>
                    /\ ~includes(calls[i].synth, <<"\n","-"," ">> \o params[k] \o <<":">>)
                    /\ ~includes(calls[i].synth, <<":"," ">> \o JSONstringify(ArgAt(calls[i].args, k)))
        /\ Declared(i).name = <<"w","r","i","t","e","L","o","n","g","S","t","o","r","y">>
                => endsWith(calls[i].synth, <<"\n","\n","S","E","L","F"," ","C","R","I","T","I","C","I","S","M",":","\n","-"," ","P","L","E","A","S","E"," ","W","R","I","T","E"," ","I","N"," ","H","T","M","L">>)

\* C4 (as amended): in an auto-derived prompt a directive parameter is not
\* listed and its value is not interpolated; its name, each underscore
\* replaced by one space and upper-cased, is a "- NAME" line of the SELF
\* CRITICISM block, which is there iff a directive parameter is declared;
\* return_only_code__without_any_explanation reads
\* "RETURN ONLY CODE  WITHOUT ANY EXPLANATION", two spaces for its two underscores.
C4_Directives ==
    \A i \in CallIds :
        ReturnsNothing(Declared(i)) =>
            /\ DirectivesKeptApart(i)
            /\ Declared(i).name = <<"c","r","e","a","t","e","F","o","r","m">>
                => endsWith(calls[i].synth,
                        <<"\n","\n","S","E","L","F"," ","C","R","I","T","I","C","I","S","M",":","\n","-"," ","R","E","T","U","R","N"," ","O","N","L","Y"," ","C","O","D","E"," "," ","W","I","T","H","O","U","T"," ","A","N","Y"," ","E","X","P","L","A","N","A","T","I","O","N">>)

C4_Witness ==
    \E i \in CallIds :
        /\ Declared(i).name = <<"c","r","e","a","t","e","F","o","r","m">>
        /\ Resolved(i)
        /\ includes(calls[i].synth, <<"\n","-"," ","R","E","T","U","R","N"," ","O","N","L","Y"," ","C","O","D","E"," "," ","W","I","T","H","O","U","T"," ","A","N","Y"," ","E","X","P","L","A","N","A","T","I","O","N">>)
        /\ ~includes(calls[i].synth, <<"t","r","u","e">>)

\* C4 as the claim states it: the line reads
\* "RETURN ONLY CODE   WITHOUT ANY EXPLANATION", with three spaces.
C4_AsStated ==
    \A i \in CallIds :
        ReturnsNothing(Declared(i)) =>
            /\ DirectivesKeptApart(i)
            /\ Declared(i).name = <<"c","r","e","a","t","e","F","o","r","m">>
                => endsWith(calls[i].synth,
                        <<"\n","\n","S","E","L","F"," ","C","R","I","T","I","C","I","S","M",":","\n","-"," ","R","E","T","U","R","N"," ","O","N","L","Y"," ","C","O","D","E"," "," "," ","W","I","T","H","O","U","T"," ","A","N","Y"," ","E","X","P","L","A","N","A","T","I","O","N">>)

\* whether the host has a <method>_sanitizeOutput hook for call i
HasHook(i) == HasFunction(host, MethodOfKey(calls[i].key) \o <<"_","s","a","n","i","t","i","z","e","O","u","t","p","u","t">>)

\* the structured value of the joke the backend returns as JSON
JokeValue == Obj(<<Pair(<<"t","i","t","l","e">>, Str(<<"x">>)), Pair(<<"c","o","n","t","e","n","t">>, Str(<<"y">>))>>)

\* C5: without a sanitize hook, a call whose dispatched prompt carries
\* "result must be in JSON format:" resolves with the parsed value when the
\* backend's text is valid JSON and with the raw text when it is not; a call
\* whose prompt lacks the marker resolves with the raw text; the completion
\* event always resolves the future.
C5_JSONCoercion ==
    \A i \in CallIds :
        (Started(i) /\ ~HasHook(i)) =>
            LET marked == includes(calls[i].prompt, JSONMarker)
                parsed == JSONparse(Str(calls[i].text))
            IN  /\ calls[i].backend = "done" => Resolved(i)
                /\ (Resolved(i) /\ marked /\ parsed.ok) => calls[i].value = parsed.v
                /\ (Resolved(i) /\ marked /\ ~parsed.ok) => calls[i].value = Str(calls[i].text)
                /\ (Resolved(i) /\ ~marked) => calls[i].value = Str(calls[i].text)
                /\ (Resolved(i) /\ Declared(i).name = <<"g","e","n","e","r","a","t","e","J","s","o","n","J","o","k","e">>)
                        => calls[i].value = (IF calls[i].text = JokeJSON THEN JokeValue
                                             ELSE Str(JokeNotJSON))
                /\ (Resolved(i) /\ Declared(i).name = <<"g","e","n","e","r","a","t","e","A","n","o","t","h","e","r","J","o","k","e">>)
                        => calls[i].value = Str(JokeJSON)

C5_Witness ==
    /\ \E i \in CallIds :
        /\ Declared(i).name = <<"g","e","n","e","r","a","t","e","J","s","o","n","J","o","k","e">>
        /\ Resolved(i) /\ calls[i].value = JokeValue
    /\ \E i \in CallIds :
        /\ Declared(i).name = <<"g","e","n","e","r","a","t","e","J","s","o","n","J","o","k","e">>
        /\ Resolved(i) /\ calls[i].value = Str(JokeNotJSON)

\* the host callables invoked for call i: [tool, args], in invocation order
ToolsOf(i) ==
    LET mine == SelectSeq(toolLog, LAMBDA e : e.call = i)
    IN  [k \in 1..Len(mine) |-> [tool |-> mine[k].tool, args |-> mine[k].args]]

\* the arguments the sanitize hook received for call i
HookArgsOf(i) ==
    LET mine == SelectSeq(hookLog, LAMBDA e : e.call = i)
    IN  [k \in 1..Len(mine) |-> mine[k].arg]

HasTools == host.tools.t = "array" /\ Len(host.tools.items) > 0

\* a text that is a JSON array of objects, each with a tool name that is a
\* callable of the host and an args mapping
IsToolBatch(text) ==
    LET p == JSONparse(Str(text))
    IN  /\ p.ok /\ p.v.t = "array" /\ Len(p.v.items) > 0
        /\ \A k \in 1..Len(p.v.items) :
            /\ p.v.items[k].t = "object"
            /\ GetProp(p.v.items[k], <<"t","o","o","l">>).t = "string"
            /\ HasFunction(host, GetProp(p.v.items[k], <<"t","o","o","l">>).s)
            /\ GetProp(p.v.items[k], <<"a","r","g","s">>).t = "object"

\* the calls a tool batch asks for: per element the tool and the values of
\* its args mapping in mapping order
BatchCalls(text) ==
    LET p == JSONparse(Str(text)).v
    IN  [k \in 1..Len(p.items) |->
            [tool |-> GetProp(p.items[k], <<"t","o","o","l">>).s,
             args |-> LET a == GetProp(p.items[k], <<"a","r","g","s">>).items
                      IN  [n \in 1..Len(a) |-> a[n].items[1]]]]

\* C6: on a host with a non-empty tools sequence, when the backend's text is
\* a JSON array of tool invocations, each element's host callable is invoked
\* once with the values of its args mapping in order, and the future
\* resolves with the step-2 value.
C6_ToolsInvoked ==
    \A i \in CallIds :
        (HasTools /\ Resolved(i) /\ IsToolBatch(calls[i].text)) =>
            /\ ToolsOf(i) = BatchCalls(calls[i].text)
            /\ calls[i].text = CalculateCall
                => ToolsOf(i) = <<[tool |-> <<"c","a","l","c","u","l","a","t","e">>, args |-> <<Str(<<"2","+","2">>)>>]>>
            /\ ~HasHook(i) =>
                calls[i].value = (IF includes(calls[i].prompt, JSONMarker)
                                  THEN JSONparse(Str(calls[i].text)).v
                                  ELSE Str(calls[i].text))

\* whether host.messages holds the turn {role: "system", content: v}
Remembered(v) ==
    \E k \in 1..Len(messages.items) :
        messages.items[k] = Obj(<<Pair(<<"r","o","l","e">>, Str(<<"s","y","s","t","e","m">>)), Pair(<<"c","o","n","t","e","n","t">>, v)>>)

\* C7: a call through 'a' + m and a call through m with the same arguments
\* get the same synthesized prompt (from the name m), the same request and
\* the same reconciliation; both return a future.
C7_AliasSame ==
    \A i, j \in CallIds :
        (/\ calls[i].key = <<"a">> \o calls[j].key
         /\ HasFunction(host, calls[j].key)
         /\ ~HasFunction(host, calls[i].key)
         /\ calls[i].args = calls[j].args) =>
            /\ Started(i) /\ Started(j)
            /\ calls[i].synth = calls[j].synth
            /\ ReturnsNothing(Declared(j)) =>
                    startsWith(calls[i].synth,
                        <<"A","s"," ","a"," ">> \o host.ctor \o <<","," ">> \o WordsOf(calls[j].key, <<>>) \o <<" ","w","i","t","h">>)
            /\ calls[i].prompt = calls[j].prompt
            /\ calls[i].isStream = calls[j].isStream
            /\ calls[i].previousMessages = calls[j].previousMessages
            /\ (calls[i].text = calls[j].text /\ calls[i].backend = "done"
                    /\ calls[j].backend = "done") =>
                    /\ Resolved(i) /\ Resolved(j)
                    /\ calls[i].value = calls[j].value
                    /\ HookArgsOf(i) = HookArgsOf(j)
                    /\ Len(HookArgsOf(i)) = (IF HasHook(j) THEN 1 ELSE 0)
                    /\ ToolsOf(i) = ToolsOf(j)
                    /\ messages.t = "array" => Remembered(calls[i].value)

C7_Witness ==
    \E i, j \in CallIds :
        /\ calls[i].key = <<"a","c","r","e","a","t","e","F","o","r","m">> /\ calls[j].key = <<"c","r","e","a","t","e","F","o","r","m">>
        /\ calls[i].text = calls[j].text
        /\ Resolved(i) /\ Resolved(j)
        /\ calls[i].value = Str(<<"<","b","/",">">>)
        /\ Len(HookArgsOf(i)) = 1

\* the chunks host.stream received for call i, in order
DeliveredTo(i) ==
    LET mine == SelectSeq(streamLog, LAMBDA e : e.call = i)
    IN  [k \in 1..Len(mine) |-> mine[k].chunk]

SinkDeclared == HasFunction(host, <<"s","t","r","e","a","m">>)

StreamedInOrder ==
    \A i \in CallIds :
        Started(i) =>
            /\ SinkDeclared =>
                /\ calls[i].isStream
                /\ DeliveredTo(i) = calls[i].emitted
                /\ Resolved(i) => Flatten(DeliveredTo(i)) = calls[i].text
            /\ ~SinkDeclared =>
                /\ ~calls[i].isStream
                /\ streamLog = <<>>

NoDeliveryAfterResolution ==
    \A i \in CallIds :
        Resolved(i) =>
            SelectSeq(streamLog', LAMBDA e : e.call = i)
                = SelectSeq(streamLog, LAMBDA e : e.call = i)

\* C8: with a stream sink on the host the request is marked streaming and
\* the sink receives every chunk the backend emits, in emission order, all
\* of them before the future resolves and none after; without a sink the
\* request is not marked streaming and chunk events reach nothing.
C8_Streaming == []StreamedInOrder /\ [][NoDeliveryAfterResolution]_vars

C8_Witness ==
    \E i \in CallIds :
        /\ Resolved(i) /\ calls[i].isStream
        /\ Len(DeliveredTo(i)) >= 2
        /\ Flatten(DeliveredTo(i)) = calls[i].text

\* C9: when the backend fails for an invocation, inside generate() or after
\* it returned, the invocation's future is rejected, and one request only
\* was issued.
C9_FailureRejects ==
    \A i \in CallIds :
        calls[i].failure # "none" =>
            /\ calls[i].future = "rejected"
            /\ calls[i].requests = 1

\* the turns appended for the invocations completed so far
AppendedTurns ==
    [k \in 1..Len(completed) |->
        Obj(<<Pair(<<"r","o","l","e">>, Str(<<"s","y","s","t","e","m">>)), Pair(<<"c","o","n","t","e","n","t">>, calls[completed[k]].value)>>)]

\* C10: on a host whose messages is a sequence, the sequence is its initial
\* content followed by one {role: "system", content: v} entry per completed
\* invocation, in completion order, v the value the invocation's future
\* resolved with; a host without messages acquires none.
C10_MemoryAppend ==
    /\ host.messages.t = "array" =>
        /\ messages.t = "array"
        /\ messages.items = host.messages.items \o AppendedTurns
    /\ host.messages.t # "array" => messages = host.messages
    /\ \A i \in CallIds : Resolved(i) <=> (\E k \in 1..Len(completed) : completed[k] = i)
    /\ \A k, n \in 1..Len(completed) : completed[k] = completed[n] => k = n

C10_Witness ==
    /\ host.messages.t = "array" /\ Len(host.messages.items) = 1
    /\ Len(completed) >= 2
    /\ Len(messages.items) = 1 + Len(completed)
    /\ \E i \in CallIds : Resolved(i) /\ Len(ToolsOf(i)) = 2

(* ------------------------- tool dispatch claims ------------------------ *)
\* the elements of a JSON array text
ElementsOf(text) == JSONparse(Str(text)).v.items

\* whether an element of a batch names a callable of the host
NamesCallable(e) ==
    GetProp(e, <<"t","o","o","l">>).t = "string" /\ HasFunction(host, GetProp(e, <<"t","o","o","l">>).s)

\* the values of an args mapping, in mapping order
ValuesOf(a) == [n \in 1..Len(a.items) |-> a.items[n].items[1]]

\* a text that is a non-empty JSON array of objects with a tool name, where
\* every element that names a callable of the host has an args mapping and
\* names a callable that returns
IsBatchWithUnknown(text) ==
    LET p == JSONparse(Str(text))
    IN  /\ p.ok /\ p.v.t = "array" /\ Len(p.v.items) > 0
        /\ \A k \in 1..Len(p.v.items) :
            /\ p.v.items[k].t = "object"
            /\ GetProp(p.v.items[k], <<"t","o","o","l">>).t = "string"
            /\ NamesCallable(p.v.items[k]) =>
                /\ GetProp(p.v.items[k], <<"a","r","g","s">>).t = "object"
                /\ FunctionOf(host, GetProp(p.v.items[k], <<"t","o","o","l">>).s).body # "throw"

\* the calls such a batch asks of the host: those of the elements that name
\* a callable, in array order
KnownCalls(text) ==
    LET known == SelectSeq(ElementsOf(text), NamesCallable)
    IN  [k \in 1..Len(known) |->
            [tool |-> GetProp(known[k], <<"t","o","o","l">>).s,
             args |-> ValuesOf(GetProp(known[k], <<"a","r","g","s">>))]]

NoteCall(text) == [tool |-> <<"n","o","t","e">>, args |-> <<Str(text)>>]

\* C11: in a batch of tool invocations, an element whose tool names no
\* callable of the host is skipped without an error and without an effect on
\* the result, and every element whose tool exists is invoked, in array
\* order, wherever the unknown element stands.
C11_UnknownToolSkipped ==
    \A i \in CallIds :
        (/\ HasTools /\ calls[i].backend = "done"
         /\ ~HasHook(i) /\ ~includes(calls[i].prompt, JSONMarker)
         /\ IsBatchWithUnknown(calls[i].text)) =>
            /\ Resolved(i)
            /\ calls[i].value = Str(calls[i].text)
            /\ ToolsOf(i) = KnownCalls(calls[i].text)
            /\ calls[i].text = UnknownFirst => ToolsOf(i) = <<NoteCall(<<"a">>)>>
            /\ calls[i].text = UnknownMiddle => ToolsOf(i) = <<NoteCall(<<"a">>), NoteCall(<<"b">>)>>
            /\ calls[i].text = UnknownLast => ToolsOf(i) = <<NoteCall(<<"a">>)>>

C11_Witness ==
    \E i, j \in CallIds :
        /\ calls[i].text = UnknownFirst /\ Resolved(i)
        /\ ToolsOf(i) = <<NoteCall(<<"a">>)>>
        /\ calls[j].text = UnknownMiddle /\ Resolved(j)
        /\ ToolsOf(j) = <<NoteCall(<<"a">>), NoteCall(<<"b">>)>>

\* one line per tool of the host, in tools order: the tool's name and the
\* parameter names it declares
ToolLines ==
    Flatten([k \in 1..Len(host.tools.items) |->
        <<"-"," ">> \o host.tools.items[k].s \o <<","," ","a","r","g","s",":"," ">>
            \o Join(FunctionOf(host, host.tools.items[k].s).params, <<","," ">>) \o <<"\n">>])

\* C12: a tool block is compiled exactly when host.tools is a non-empty
\* sequence.  Then the dispatched prompt is the synthesized prompt, a blank
\* line and the block, whose listing has one line "- name, args: p1, p2" per
\* tool in tools order.  Otherwise the dispatched prompt is the synthesized
\* prompt and no host callable is invoked as a tool, whatever the backend
\* returns.
C12_ToolBlock ==
    \A i \in CallIds :
        Started(i) =>
            /\ HasTools =>
                /\ calls[i].prompt
                     = calls[i].synth \o <<"\n","\n">> \o ToolPromptHead \o ToolLines \o ToolPromptTail
                /\ host = Scheduler =>
                     SubSeq(calls[i].prompt, Len(calls[i].synth) + 1,
                            Len(calls[i].synth) + 2 + Len(ToolPromptHead) + 24)
                       = <<"\n","\n","\n","Y","o","u"," ","c","a","n"," ","O","N","L","Y"," ","u","s","e"," ","f","o","l","l","o","w","i","n","g"," ","t","o","o","l","s"," ","l","i","s","t"," ","t","o"," ","p","r","o","c","e","s","s"," ","t","h","e"," ","u","s","e","r","s","'","s"," ","r","e","q","u","e","s","t",":","\n","-"," ","c","a","l","c","u","l","a","t","e",","," ","a","r","g","s",":"," ","e","x","p","r","\n">>
            /\ ~HasTools =>
                /\ calls[i].prompt = calls[i].synth
                /\ ToolsOf(i) = <<>>

C12_Witness ==
    \E i \in CallIds :
        /\ host.tools = Arr(<<>>)
        /\ Resolved(i)
        /\ IsToolBatch(calls[i].text)
        /\ calls[i].prompt = calls[i].synth
        /\ ToolsOf(i) = <<>>

(* ------------------------ prompt source selection ---------------------- *)
\* a return value that carries no usable prompt
NoUsablePrompt(v) ==
    \/ v.t \in {"undefined", "null"}
    \/ v = Str(<<>>)
    \/ v.t = "object" /\ ~hasOwnProperty(v, <<"p","r","o","m","p","t">>)
    \/ v.t = "object" /\ GetProp(v, <<"p","r","o","m","p","t">>) = Str(<<>>)

\* a return value that is an object with a non-empty prompt string
CarriesPrompt(v) ==
    v.t = "object" /\ GetProp(v, <<"p","r","o","m","p","t">>).t = "string" /\ GetProp(v, <<"p","r","o","m","p","t">>).s # <<>>

\* C13: whatever the method returns, a prompt is selected: the prompt field
\* of a returned object, and for undefined, null, the empty string and an
\* object with no or an empty prompt field the auto-derived prompt, and
\* exactly one request is dispatched without an exception.
C13_SelectionTotal ==
    \A i \in CallIds :
        LET r == Apply(Declared(i), calls[i].args)
        IN  /\ (~r.threw /\ CarriesPrompt(r.v)) =>
                /\ Started(i) /\ calls[i].requests = 1
                /\ calls[i].synth = GetProp(r.v, <<"p","r","o","m","p","t">>).s
            /\ (~r.threw /\ NoUsablePrompt(r.v)) =>
                /\ Started(i) /\ calls[i].requests = 1
                /\ startsWith(calls[i].synth,
                       <<"A","s"," ","a"," ">> \o host.ctor \o <<","," ">>
                          \o WordsOf(MethodOfKey(calls[i].key), <<>>) \o <<" ","w","i","t","h">>)

\* the same for every return value but null
C13_ButNull ==
    \A i \in CallIds :
        LET r == Apply(Declared(i), calls[i].args)
        IN  /\ (~r.threw /\ CarriesPrompt(r.v)) =>
                /\ Started(i) /\ calls[i].requests = 1
                /\ calls[i].synth = GetProp(r.v, <<"p","r","o","m","p","t">>).s
            /\ (~r.threw /\ NoUsablePrompt(r.v) /\ r.v.t # "null") =>
                /\ Started(i) /\ calls[i].requests = 1
                /\ startsWith(calls[i].synth,
                       <<"A","s"," ","a"," ">> \o host.ctor \o <<","," ">>
                          \o WordsOf(MethodOfKey(calls[i].key), <<>>) \o <<" ","w","i","t","h">>)

(* --------------------------- reconciliation ---------------------------- *)
\* the turn {role: "system", content: v}
SystemTurn(v) == Obj(<<Pair(<<"r","o","l","e">>, Str(<<"s","y","s","t","e","m">>)), Pair(<<"c","o","n","t","e","n","t">>, v)>>)

\* what step 1 makes of the backend's text for call i
Coerced(i) ==
    LET parsed == JSONparse(Str(calls[i].text))
    IN  IF includes(calls[i].prompt, JSONMarker) /\ parsed.ok THEN parsed.v
        ELSE Str(calls[i].text)

ReconciledInOrder ==
    \A i \in CallIds :
        /\ Len(HookArgsOf(i)) <= 1
        /\ calls[i].backend = "done" =>
            /\ Len(HookArgsOf(i)) = (IF HasHook(i) THEN 1 ELSE 0)
            /\ HasHook(i) => HookArgsOf(i) = <<Coerced(i)>>
        /\ calls[i].backend # "done" => HookArgsOf(i) = <<>> /\ ToolsOf(i) = <<>>
        /\ Resolved(i) =>
            /\ ~HasHook(i) => calls[i].value = Coerced(i)
            /\ (host = Reviewer /\ calls[i].text = JokeJSON) => calls[i].value = Str(<<"x">>)
            /\ (host = Reviewer /\ calls[i].text = JokeNotJSON) => calls[i].value = Undef
            /\ messages.t = "array" => Remembered(calls[i].value)
        /\ \A k \in 1..Len(toolLog) :
            toolLog[k].call = i =>
                /\ calls[i].backend = "done"
                /\ messages.t = "array" =>
                    /\ toolLog[k].memory \in 1..Len(messages.items)
                    /\ messages.items[toolLog[k].memory] = SystemTurn(calls[i].value)

NothingAfterResolution ==
    \A i \in CallIds :
        calls[i].backend = "done" =>
            /\ SelectSeq(toolLog', LAMBDA e : e.call = i)
                 = SelectSeq(toolLog, LAMBDA e : e.call = i)
            /\ SelectSeq(hookLog', LAMBDA e : e.call = i)
                 = SelectSeq(hookLog, LAMBDA e : e.call = i)
            /\ calls'[i] = calls[i]
            /\ messages.t = "array" =>
                 SubSeq(messages'.items, 1, Len(messages.items)) = messages.items

\* C14: the completion event runs JSON coercion, the sanitize hook, the
\* memory append, tool dispatch and resolution once each in this order: the
\* hook receives the parsed value when the marker is there and the text
\* parses, its return value is what is remembered and resolved, a tool is
\* called when the turn of its invocation is already in messages, the turn
\* and the tool calls are there when the future is resolved, the hook is
\* called at most once, and nothing of it happens again afterwards.
C14_FixedOrder == []ReconciledInOrder /\ [][NothingAfterResolution]_vars

C14_Witness ==
    \E i \in CallIds :
        /\ host = Reviewer /\ calls[i].text = JokeJSON
        /\ Resolved(i)
        /\ HookArgsOf(i) = <<JokeValue>>
        /\ calls[i].value = Str(<<"x">>)
        /\ messages.items[Len(messages.items)] = SystemTurn(Str(<<"x">>))

\* the texts of the model on which step 4 fails or finds nothing to dispatch
Undispatchable == {<<"n","o">>, <<"H","e","l","l","o">>, NotAnArray, EmptyBatch, NoToolField, NoArgs}

\* C15: when a tool block was compiled, a failure of step 4 (a value that
\* does not parse, is no array, is an empty array, whose first element has
\* no tool field, an element without args, a tool that throws) leaves the
\* completion callback without an exception: the future resolves with the
\* step-2 value, which is already in messages.
C15_ToolFailuresSwallowed ==
    \A i \in CallIds :
        (HasTools /\ calls[i].backend = "done" /\ ~HasHook(i)) =>
            /\ Resolved(i)
            /\ calls[i].value = Coerced(i)
            /\ messages.t = "array" => Remembered(calls[i].value)
            /\ calls[i].text \in Undispatchable =>
                /\ ToolsOf(i) = <<>>
                /\ calls[i].value = Str(calls[i].text)
            /\ calls[i].text = CrashFirst =>
                /\ ToolsOf(i) = <<[tool |-> <<"c","r","a","s","h">>, args |-> <<Str(<<"r">>)>>]>>
                /\ calls[i].value = Str(CrashFirst)

C15_Witness ==
    \E i, j \in CallIds :
        /\ calls[i].text = CrashFirst /\ Resolved(i)
        /\ ToolsOf(i) = <<[tool |-> <<"c","r","a","s","h">>, args |-> <<Str(<<"r">>)>>]>>
        /\ Remembered(Str(CrashFirst))
        /\ calls[j].text = NoArgs /\ Resolved(j)
        /\ ToolsOf(j) = <<>>
        /\ Remembered(Str(NoArgs))

\* C16: tool dispatch does not depend on what step 1 did: for the same
\* batch of tool invocations naming callables of the host, a call whose
\* prompt carries the JSON marker (so that step 1 parsed the text) has the
\* same tool calls as a call whose prompt does not.
C16_DispatchAfterCoercion ==
    \A i, j \in CallIds :
        (/\ HasTools /\ Resolved(i) /\ Resolved(j)
         /\ calls[i].text = calls[j].text
         /\ IsToolBatch(calls[i].text)
         /\ includes(calls[i].prompt, JSONMarker)
         /\ ~includes(calls[j].prompt, JSONMarker)) =>
            /\ ToolsOf(j) = BatchCalls(calls[j].text)
            /\ ToolsOf(i) = ToolsOf(j)

(* ---------------------------- overlapping calls ------------------------ *)
\* the value call i has to resolve with: what its own request returned,
\* coerced, and passed through its hook if the host has one
OwnResult(i) ==
    IF HasHook(i)
    THEN Apply(FunctionOf(host, MethodOfKey(calls[i].key) \o <<"_","s","a","n","i","t","i","z","e","O","u","t","p","u","t">>),
               <<Coerced(i)>>).v
    ELSE Coerced(i)

\* a completion of call i that resolves its future while another call is
\* dispatched and not complete
CompletesBeside(i, j) ==
    /\ i # j
    /\ calls[i].future = "pending" /\ calls'[i].future = "resolved"
    /\ calls[j].backend = "running"

OverlappingCompletion ==
    \A i, j \in CallIds :
        (CompletesBeside(i, j) /\ messages.t = "array") =>
            /\ messages'.items = Append(messages.items, SystemTurn(OwnResult(i)))
            /\ calls'[i].value = OwnResult(i)
            /\ calls'[j] = calls[j]
            /\ completed' = Append(completed, i)

\* C17: when two invocations on a host with messages overlap, each
\* completion appends exactly one turn, that of its own result, behind the
\* turns already there, so that the turns stand in completion order, and
\* each future resolves with the result of its own request.
C17_Overlap == [][OverlappingCompletion]_vars

\* the second call completed first: turns in completion order, each future
\* with its own result
C17_Witness ==
    /\ completed = <<2, 1>>
    /\ messages.t = "array"
    /\ calls[1].text # calls[2].text
    /\ calls[1].value = Str(calls[1].text) /\ calls[2].value = Str(calls[2].text)
    /\ SubSeq(messages.items, Len(messages.items) - 1, Len(messages.items))
         = <<SystemTurn(calls[2].value), SystemTurn(calls[1].value)>>

(* ------------------------- which callables run ------------------------- *)
\* whether host.tools lists a function of this name
ListedTool(name) ==
    /\ host.tools.t = "array"
    /\ \E k \in 1..Len(host.tools.items) : host.tools.items[k].s = name

\* whether the text returned for call i is an array with an element that
\* names this tool
NamedByModel(i, name) ==
    LET p == JSONparse(Str(calls[i].text))
    IN  /\ p.ok /\ p.v.t = "array"
        /\ \E k \in 1..Len(p.v.items) : GetProp(p.v.items[k], <<"t","o","o","l">>) = Str(name)

\* C18 as stated: a host callable is invoked on behalf of model output only
\* if host.tools lists it.
C18_OnlyListedTools ==
    \A k \in 1..Len(toolLog) : ListedTool(toolLog[k].tool)

\* C18, amended: a host callable is invoked on behalf of model output only
\* if a tool block was compiled and the returned text names it and it is a
\* callable of the host; it need not be listed in host.tools: the
\* intercepted method, an inherited callable and any other method are
\* invoked when the model names them.
C18_OnlyHostCallables ==
    /\ \A k \in 1..Len(toolLog) :
        /\ HasTools
        /\ HasFunction(host, toolLog[k].tool)
        /\ NamedByModel(toolLog[k].call, toolLog[k].tool)
    /\ \A i \in CallIds :
        (Resolved(i) /\ calls[i].text = UnlistedCalls /\ HasTools) =>
            ToolsOf(i) = << [tool |-> <<"r","e","s","p","o","n","d">>, args |-> <<Str(<<"x">>)>>],
                            [tool |-> <<"t","o","S","t","r","i","n","g">>, args |-> <<>>],
                            [tool |-> <<"a","u","d","i","t">>, args |-> <<Str(<<"e">>)>>] >>

C18_Witness ==
    \E i \in CallIds :
        /\ Resolved(i) /\ calls[i].key = <<"r","e","s","p","o","n","d">>
        /\ \E k \in 1..Len(toolLog) :
            /\ toolLog[k].call = i
            /\ toolLog[k].tool = <<"r","e","s","p","o","n","d">>
            /\ ~ListedTool(toolLog[k].tool)
        /\ \E k \in 1..Len(toolLog) : toolLog[k].call = i /\ toolLog[k].tool = <<"t","o","S","t","r","i","n","g">>

(* --------------------------- the form of args -------------------------- *)
\* a text that is a non-empty JSON array of objects, each naming a callable
\* of the host and giving args as a sequence of single-key objects
IsSequenceBatch(text) ==
    LET p == JSONparse(Str(text))
    IN  /\ p.ok /\ p.v.t = "array" /\ Len(p.v.items) > 0
        /\ \A k \in 1..Len(p.v.items) :
            /\ p.v.items[k].t = "object"
            /\ NamesCallable(p.v.items[k])
            /\ GetProp(p.v.items[k], <<"a","r","g","s">>).t = "array"
            /\ \A n \in 1..Len(GetProp(p.v.items[k], <<"a","r","g","s">>).items) :
                /\ GetProp(p.v.items[k], <<"a","r","g","s">>).items[n].t = "object"
                /\ Len(GetProp(p.v.items[k], <<"a","r","g","s">>).items[n].items) = 1

\* the calls such a batch asks for: per element the tool and the value of
\* each single-key object, in sequence order
SequenceCalls(text) ==
    [k \in 1..Len(ElementsOf(text)) |->
        [tool |-> GetProp(ElementsOf(text)[k], <<"t","o","o","l">>).s,
         args |-> LET a == GetProp(ElementsOf(text)[k], <<"a","r","g","s">>).items
                  IN  [n \in 1..Len(a) |-> a[n].items[1].items[1]]]]

\* C19: a tool invocation whose args is a sequence of single-key objects
\* {argName: argValue}, the form the tool block shows, invokes the tool
\* with the argValues as positional arguments in sequence order, the
\* arguments it gets when args is one mapping of the same names and values.
C19_ArgsSequence ==
    \A i \in CallIds :
        (/\ HasTools /\ Resolved(i)
         /\ ~includes(calls[i].prompt, JSONMarker)
         /\ IsSequenceBatch(calls[i].text)) =>
            /\ ToolsOf(i) = SequenceCalls(calls[i].text)
            /\ \A j \in CallIds :
                (Resolved(j) /\ calls[i].text = NoteSequence /\ calls[j].text = NoteMapping)
                    => ToolsOf(i) = ToolsOf(j)
====
